---- MODULE Spec2Model ----
(***************************************************************************)
(* A model of plugins/Library.py: the search orchestrator, the result     *)
(* cache, and the per-user download / upload / archival pipeline.         *)
(*                                                                         *)
(* Sizes are in KB (1 KB = 1024 bytes); every size of the model is a      *)
(* whole number of KB.  A title is a sequence of one-character strings.   *)
(* A message text is a tuple: its template followed by the numbers that   *)
(* the f-string interpolates.                                              *)
(***************************************************************************)
EXTENDS Integers, Sequences, FiniteSets, TLC

\* ---------------------------------------------------------------- bounds
\* The environment fails (a transport call raises, a response is bad, a write
\* fails, the backend signals FloodWait) at most this many times in a run of
\* the three concurrent callbacks, and at most MaxTransferFaults times in a
\* run of one delivery cycle; a run of one large transfer has MaxLargeFaults.
MaxFaults == 1
MaxTransferFaults == 3
MaxLargeFaults == 1
\* the longest list a search strategy answers
MaxItems == 2
\* the longest result set a pagination session holds
MaxResults == 21

\* ------------------------------------------------------ program constants
KB_PER_MB == 1024
SIZE_LIMIT_MB == 50
LARGE_FILE_MB == 30
CHUNK_MB == 2
max_retries == 3
retry_delay == 5
FLOOD_MARGIN == 2
WRITE_ATTEMPTS == 3
RESULTS_PER_PAGE == 10
MAX_NAME_LEN == 50

SizeLimit == SIZE_LIMIT_MB * KB_PER_MB
LargeFile == LARGE_FILE_MB * KB_PER_MB
ChunkMax  == CHUNK_MB * KB_PER_MB

\* ------------------------------------------------------------- the actors
Callbacks == {"c1", "c2", "c3", "c4"}
Users == {"u1", "u2"}
\* callback_query.from_user.id of each lgdl_ callback
UserOf(c) == IF c = "c3" THEN "u2" ELSE "u1"

None == "None"
NoMessage == <<>>
NoPath == <<>>
NoData == <<>>
NoFile == [exists |-> FALSE, content |-> <<>>]

\* ------------------------------------------------------------------ text
Min(a, b) == IF a < b THEN a ELSE b

IsAlnum(ch) == ch \in {"A", "a", "b", "u", "n", "k", "o", "w"}
Lower(ch) == IF ch = "A" THEN "a" ELSE ch
IsSpace(ch) == ch = " "

RECURSIVE LStrip(_)
LStrip(t) == IF t # <<>> /\ IsSpace(Head(t)) THEN LStrip(Tail(t)) ELSE t
RECURSIVE RStrip(_)
RStrip(t) ==
  IF t # <<>> /\ IsSpace(t[Len(t)]) THEN RStrip(SubSeq(t, 1, Len(t) - 1)) ELSE t
\* str.strip()
Strip(t) == RStrip(LStrip(t))
\* str.lower()
LowerStr(t) == [i \in 1..Len(t) |-> Lower(t[i])]

\* log_download: raw_title = str(Title).strip(); clean_title = raw_title.lower().strip()
NormalizeTitle(t) == Strip(LowerStr(Strip(t)))
Unknown == <<"u", "n", "k", "n", "o", "w", "n">>

\* handle_download_callback: "".join(c if c.isalnum() else "_" for c in Title)
SanitizeTitle(t) == [i \in 1..Len(t) |-> IF IsAlnum(t[i]) THEN t[i] ELSE "_"]
\* temp_path = f"downloads/{clean_title[:50]}.{file_ext}"
TempPath(bk) ==
  LET clean == SanitizeTitle(bk.Title)
  IN  <<"downloads", SubSeq(clean, 1, Min(MAX_NAME_LEN, Len(clean))), bk.Extension>>

\* round(n / d), Python 3: to the nearest integer, a tie to the even one
Round(n, d) ==
  LET q == n \div d
      r == n % d
  IN  IF 2 * r < d THEN q
      ELSE IF 2 * r > d THEN q + 1
      ELSE IF q % 2 = 0 THEN q ELSE q + 1

\* -------------------------------------------------------- the environment
\* The remote server: per URL, the advertised content-length (0: none is
\* advertised), the length of the body it streams, and whether its stream
\* may hand over less than a full chunk before the body ends.
Server ==
  [ a |-> [content_length |-> 1 * KB_PER_MB, body |-> 1 * KB_PER_MB, short_reads |-> TRUE],
    b |-> [content_length |-> 51 * KB_PER_MB, body |-> 51 * KB_PER_MB, short_reads |-> TRUE],
    c |-> [content_length |-> 3 * KB_PER_MB, body |-> 3 * KB_PER_MB, short_reads |-> TRUE],
    d |-> [content_length |-> 31 * KB_PER_MB, body |-> 31 * KB_PER_MB, short_reads |-> FALSE],
    e |-> [content_length |-> 0, body |-> 1 * KB_PER_MB, short_reads |-> TRUE] ]

Book(id, title, ext, url) ==
  [ID |-> id, Title |-> title, Extension |-> ext, Direct_Download_Link |-> url]

\* Result sets as libgen_search returns them.  The two titles of
\* SmallResults differ and sanitize to the same file name.
SmallResults ==
  << Book(1, <<"A", " ", "b">>, "pdf", "a"),
     Book(2, <<"A", "_", "b">>, "pdf", "b") >>
BigResults ==
  << Book(4, <<"A", " ">>, "pdf", "c"),
     Book(6, <<"a", "b">>, "pdf", "b"),
     Book(7, <<"k">>, "pdf", "e"),
     Book(8, <<" ">>, "pdf", "a") >>
LargeResults ==
  << Book(5, <<"b">>, "pdf", "d"),
     Book(9, <<"c">>, "pdf", "b") >>

NoBook == Book(0, <<>>, "", "")

\* the keys a callback may carry; search_cache holds some of them
SessionKeys == {"k1", "k0"}

\* ------------------------------------------------------------------ state
VARIABLES
  search_cache,     \* session key -> result set, for the keys in the cache
  USER_LOCKS,       \* user -> [locked, waiters]: an asyncio.Lock, waiters in FIFO order
  elapsed,          \* user -> seconds since LAST_PROGRESS_UPDATE[user][1]
  AUTO_DELETE_TIME, \* info.AUTO_DELETE_TIME
  files,            \* path -> [exists, content]: the chunk sizes written, in order
  db_titles,        \* the title store (db.is_title_exists / db.add_file_title)
  store_forwards,   \* normalized title -> documents sent to FILE_STORE_CHANNEL[0]
  store_inserts,    \* normalized title -> calls of db.add_file_title that stored it
  pc,               \* callback -> where its coroutine is suspended
  data,             \* callback -> [key, index] of callback_query.data
  book,             \* callback -> results[index], read once
  temp_path,        \* callback -> its local path, NoPath before the file handling
  handle,           \* callback -> "closed", "open", or "orphan" (its open file was unlinked)
  err,              \* callback -> the exception in flight
  local,            \* callback -> the local variables of the function it runs
                    \*   (download_libgen_file or upload_to_telegram), see NoLocals
  gets,             \* callback -> GET requests issued by its fetch
  written,          \* callback -> KB its fetch wrote, over all attempts
  progress_msg,     \* callback -> the text its progress message shows, NoMessage without one
  answered,         \* callback -> the text of callback_query.answer, None before
  sent_msg,         \* callback -> whether send_document returned the delivered message
  sink_dup,         \* callback -> whether a progress edit repeated the text of the one before
  task,             \* callback -> its auto_delete_task: None, or "sleeping"
  faults,           \* the failures the environment may still inject
  lg,               \* strategy name -> what the backend answers to it
  search_pc,        \* where libgen_search is
  method_i,         \* the position of the loop of l.50 in search_methods
  valid_results,    \* l.35
  returned,         \* the value libgen_search returned, <<>> before
  slept,            \* the seconds libgen_search slept
  calls,            \* the backend strategies called, in order
  page_pc,          \* where handle_pagination is
  page_data,        \* [key, page] of the lgpage_ callback_query.data
  view,             \* what the result message of each session shows: [key, page, buttons]
  page_answer,      \* the text of the pagination callback's answer, None without one
  command           \* handle_search_command: where it is, and its search_key

shared == <<search_cache, USER_LOCKS, elapsed, AUTO_DELETE_TIME, files, db_titles,
            store_forwards, store_inserts, faults>>
ctl    == <<pc, data, book, temp_path, err, answered, sent_msg, task>>
fetchv == <<handle, local, gets, written>>
progv  == <<progress_msg, sink_dup>>
searchv == <<lg, search_pc, method_i, valid_results, returned, slept, calls>>
pagev  == <<page_pc, page_data, view, page_answer, command>>
vars   == <<shared, ctl, fetchv, progv, searchv, pagev>>

\* no notice and no deletion task
NoTask == [state |-> None, waited |-> 0, deleted |-> FALSE,
           deleter_msg |-> NoMessage, edits |-> 0]

\* download_libgen_file: attempt, total_size (0: None), downloaded, chunk,
\* write_attempt, last_percent, last_message (l.129-130, l.141, l.155-163);
\* upload_to_telegram: last_percent, last_message (l.212-213), and the
\* current and total of the transport's progress calls (l.216)
NoLocals ==
  [attempt |-> 0, total_size |-> 0, downloaded |-> 0, chunk |-> 0, write_attempt |-> 0,
   last_percent |-> -1, last_message |-> <<>>, current |-> 0, total |-> 0]

AllBooks == {SmallResults[i] : i \in DOMAIN SmallResults}
              \cup {BigResults[i] : i \in DOMAIN BigResults}
              \cup {LargeResults[i] : i \in DOMAIN LargeResults}
Paths == {TempPath(b) : b \in AllBooks}
NormTitles == {NormalizeTitle(b.Title) : b \in AllBooks}
\* seconds since the last progress update, as far as the code compares them:
\* not above 2, above 2, above 10, above 15 (datetime.min is above them all)
ElapsedSteps == <<0, 3, 11, 16>>

\* ------------------------------------------------------------ libgen_search
\* l.44-48: the strategies, in the order they are tried; l.83: the fallback
search_methods == <<"default", "title_filtered", "default_filtered">>
FallbackMethod == "title"

\* l.39
required_keys == {"ID", "Author", "Title", "Direct_Download_Link"}

\* What a strategy may hand back as one element of its list: a dict with the
\* keys given (its Title tells the strategies apart), or something that is no
\* container, on which `key in result` raises TypeError.
Dict(id, name, keys) == [kind |-> "dict", keys |-> keys, ID |-> id, Title |-> name]
NotADict == [kind |-> "none", keys |-> {}, ID |-> 0, Title |-> ""]
Items(name) ==
  {Dict(1, name, required_keys), Dict(2, name, required_keys),
   Dict(1, name, required_keys \ {"Author"}), NotADict}

\* What a strategy call may do: return a list, return something else, or raise.
ListOf(items) == [kind |-> "list", items |-> items, exc |-> None, value |-> 0]
NotAList == [kind |-> "not_list", items |-> <<>>, exc |-> None, value |-> 0]
Raises(e, v) == [kind |-> "raise", items |-> <<>>, exc |-> e, value |-> v]
Lists(name) == UNION {[1 .. n -> Items(name)] : n \in 0 .. MaxItems}
Outcomes(name) ==
  {ListOf(l) : l \in Lists(name)}
    \cup {NotAList, Raises("JSONDecodeError", 0), Raises("ConnectionError", 0),
          Raises("FloodWait", 3)}

\* the exception classes met here; each of them derives from Exception
ExceptionClasses == {"JSONDecodeError", "ConnectionError", "FloodWait", "TypeError"}

\* l.37-40: all(key in result ...) and isinstance(result, dict); the
\* membership test raises TypeError on what is no container
ValidateRaises(result) == result.kind # "dict"
\* every element taken for valid
ValidateAlways(result) == TRUE
validate_result(result) == required_keys \subseteq result.keys /\ result.kind = "dict"

\* l.58-62: append the valid elements to acc, up to an element on which
\* validate_result raises
RECURSIVE Collect(_, _)
Collect(results, acc) ==
  IF results = <<>> THEN [valid |-> acc, exc |-> None]
  ELSE IF ValidateRaises(Head(results)) THEN [valid |-> acc, exc |-> "TypeError"]
  ELSE Collect(Tail(results),
               IF validate_result(Head(results)) THEN Append(acc, Head(results)) ELSE acc)

\* l.52-62: one strategy call and what it leaves in valid_results
RunStrategy(out, acc) ==
  IF out.kind = "raise" THEN [valid |-> acc, exc |-> out.exc]
  ELSE IF out.kind # "list" THEN [valid |-> acc, exc |-> None]
  ELSE Collect(out.items, acc)

\* an inner try that handles the decode error only
InnerCatchesDecodeOnly(e) == e = "JSONDecodeError"

\* l.64-67: the handlers of the inner try; what they do not catch propagates
InnerCatches(e) == e = "JSONDecodeError" \/ e \in ExceptionClasses

\* duplicates removed keeping the last record of each ID
RECURSIVE UniqueKeepLast(_, _, _)
UniqueKeepLast(results, seen_ids, unique_results) ==
  IF results = <<>> THEN unique_results
  ELSE LET result == Head(results)
           rest == Tail(results)
       IN  IF \E k \in DOMAIN rest : rest[k].ID = result.ID
             THEN UniqueKeepLast(rest, seen_ids, unique_results)
             ELSE UniqueKeepLast(rest, seen_ids \cup {result.ID},
                                 Append(unique_results, result))

\* l.69-77: remove duplicates using the ID field
RECURSIVE Unique(_, _, _)
Unique(results, seen_ids, unique_results) ==
  IF results = <<>> THEN unique_results
  ELSE LET result == Head(results)
       IN  IF result.ID \notin seen_ids
             THEN Unique(Tail(results), seen_ids \cup {result.ID},
                         Append(unique_results, result))
             ELSE Unique(Tail(results), seen_ids, unique_results)

NotReturned == [done |-> FALSE, value |-> <<>>]
Return_(v) == [done |-> TRUE, value |-> v]

\* no search runs
InitNoSearch ==
  /\ lg = [n \in {FallbackMethod} |-> ListOf(<<>>)]
  /\ search_pc = "idle"
  /\ method_i = 0
  /\ valid_results = <<>>
  /\ returned = NotReturned
  /\ slept = 0
  /\ calls = <<>>

\* l.50-67: one round of the loop over search_methods
RunMethod ==
  /\ search_pc = "loop"
  /\ LET name == search_methods[method_i]
         r == RunStrategy(lg[name], valid_results)
     IN  /\ calls' = Append(calls, name)
         /\ valid_results' = r.valid
         /\ IF r.exc = None \/ InnerCatches(r.exc)
              THEN IF method_i < Len(search_methods)
                     THEN /\ method_i' = method_i + 1
                          /\ search_pc' = "loop"
                     ELSE /\ method_i' = 0
                          /\ search_pc' = "dedup"
              ELSE /\ method_i' = 0
                   /\ search_pc' = IF r.exc = "FloodWait" THEN "except_flood" ELSE "except_main"
  /\ UNCHANGED <<search_cache, USER_LOCKS, elapsed, AUTO_DELETE_TIME, files, db_titles,
                 store_forwards, store_inserts, pc, data, book, temp_path, handle, err,
                 local, gets, written, progress_msg, answered, sent_msg, sink_dup, task,
                 faults, lg, returned, slept, page_pc, page_data, view, page_answer,
                 command>>

\* l.69-77: deduplicate and return
Dedup ==
  /\ search_pc = "dedup"
  /\ returned' = Return_(Unique(valid_results, {}, <<>>))
  /\ search_pc' = "done"
  /\ UNCHANGED <<search_cache, USER_LOCKS, elapsed, AUTO_DELETE_TIME, files, db_titles,
                 store_forwards, store_inserts, pc, data, book, temp_path, handle, err,
                 local, gets, written, progress_msg, answered, sent_msg, sink_dup, task,
                 faults, lg, method_i, valid_results, slept, calls, page_pc, page_data,
                 view, page_answer, command>>

\* l.79-80: except FloodWait: sleep e.value + 2
ExceptFloodWait ==
  /\ search_pc = "except_flood"
  /\ \E n \in DOMAIN calls :
       /\ n = Len(calls)
       /\ slept' = slept + lg[calls[n]].value + FLOOD_MARGIN
  /\ search_pc' = "fallback"
  /\ UNCHANGED <<search_cache, USER_LOCKS, elapsed, AUTO_DELETE_TIME, files, db_titles,
                 store_forwards, store_inserts, pc, data, book, temp_path, handle, err,
                 local, gets, written, progress_msg, answered, sent_msg, sink_dup, task,
                 faults, lg, method_i, valid_results, returned, calls, page_pc,
                 page_data, view, page_answer, command>>

\* l.81-87: the fallback lg.search_title and its validated records
Fallback ==
  /\ search_pc = "fallback"
  /\ calls' = Append(calls, FallbackMethod)
  /\ LET r == RunStrategy(lg[FallbackMethod], <<>>)
     IN  returned' = Return_(IF r.exc = None THEN r.valid ELSE <<>>)
  /\ search_pc' = "done"
  /\ UNCHANGED <<search_cache, USER_LOCKS, elapsed, AUTO_DELETE_TIME, files, db_titles,
                 store_forwards, store_inserts, pc, data, book, temp_path, handle, err,
                 local, gets, written, progress_msg, answered, sent_msg, sink_dup, task,
                 faults, lg, method_i, valid_results, slept, page_pc, page_data, view,
                 page_answer, command>>

\* l.89-91: except Exception: return []
ExceptMain ==
  /\ search_pc = "except_main"
  /\ returned' = Return_(<<>>)
  /\ search_pc' = "done"
  /\ UNCHANGED <<search_cache, USER_LOCKS, elapsed, AUTO_DELETE_TIME, files, db_titles,
                 store_forwards, store_inserts, pc, data, book, temp_path, handle, err,
                 local, gets, written, progress_msg, answered, sent_msg, sink_dup, task,
                 faults, lg, method_i, valid_results, slept, calls, page_pc, page_data,
                 view, page_answer, command>>

\* ---------------------------------------------------- create_search_buttons
Max(a, b) == IF a > b THEN a ELSE b

\* seq[a:b], a Python slice: a negative bound counts from the end, and both
\* bounds are clamped to the sequence
PySlice(seq, a, b) ==
  LET n == Len(seq)
      lo == IF a < 0 THEN Max(n + a, 0) ELSE Min(a, n)
      hi == IF b < 0 THEN Max(n + b, 0) ELSE Min(b, n)
  IN  IF lo < hi THEN SubSeq(seq, lo + 1, hi) ELSE <<>>

\* l.96, l.389
total_pages(results) == (Len(results) + RESULTS_PER_PAGE - 1) \div RESULTS_PER_PAGE

\* l.98
start_idx(page) == (page - 1) * RESULTS_PER_PAGE

\* a page that takes one record of the next page along
PageResultsInclusive(results, page) ==
  PySlice(results, start_idx(page), start_idx(page) + RESULTS_PER_PAGE + 1)

\* l.98-100
page_results(results, page) ==
  PySlice(results, start_idx(page), start_idx(page) + RESULTS_PER_PAGE)

\* buttons that carry the position on the page
RecordButtonsOnPage(results, search_key, page) ==
  [idx \in 1 .. Len(page_results(results, page)) |->
     [shows |-> page_results(results, page)[idx].ID,
      callback_data |-> <<"lgdl", search_key, idx - 1>>]]

\* l.102-112: one button per record of the page; the button shows the record
\* and carries lgdl_<search_key>_<global_idx>
RecordButtons(results, search_key, page) ==
  [idx \in 1 .. Len(page_results(results, page)) |->
     [shows |-> page_results(results, page)[idx].ID,
      callback_data |-> <<"lgdl", search_key, start_idx(page) + idx - 1>>]]

\* l.114-120: Back, the page indicator (its text is page/total_pages, its
\* data the inert "pages"), Next
Pagination(results, search_key, page) ==
  (IF page > 1
     THEN << [text |-> "Back", callback_data |-> <<"lgpage", search_key, page - 1>>] >>
     ELSE <<>>)
  \o << [text |-> "Indicator", callback_data |-> <<"pages">>] >>
  \o (IF page < total_pages(results)
        THEN << [text |-> "Next", callback_data |-> <<"lgpage", search_key, page + 1>>] >>
        ELSE <<>>)

\* l.93-125
create_search_buttons(results, search_key, page) ==
  [rows |-> RecordButtons(results, search_key, page),
   pagination |-> Pagination(results, search_key, page)]

\* a result set of n records, as handle_search_command caches it
ResultsOfLen(n) == [i \in 1 .. n |-> Book(i, <<"t">>, "pdf", "a")]

\* the pages a pagination callback may ask for
Pages == 0 .. total_pages(ResultsOfLen(MaxResults)) + 1

NoView == [key |-> None, page |-> 0, buttons |-> [rows |-> <<>>, pagination |-> <<>>]]
View(results, search_key, page) ==
  [key |-> search_key, page |-> page,
   buttons |-> create_search_buttons(results, search_key, page)]

NoCommand == [pc |-> "idle", search_key |-> None]

\* no result message, no pagination callback, no /search command
InitNoPaging ==
  /\ page_pc = "idle"
  /\ page_data = NoData
  /\ view = [k \in SessionKeys |-> NoView]
  /\ page_answer = None
  /\ command = NoCommand

\* --------------------------------------------------------- handle_pagination
\* a user presses a pagination button, or sends its data
PageCallback ==
  /\ page_pc = "idle"
  /\ \E k \in SessionKeys, page \in Pages : page_data' = <<k, page>>
  /\ page_answer' = None
  /\ page_pc' = "start"
  /\ UNCHANGED <<search_cache, USER_LOCKS, elapsed, AUTO_DELETE_TIME, files, db_titles,
                 store_forwards, store_inserts, pc, data, book, temp_path, handle, err,
                 local, gets, written, progress_msg, answered, sent_msg, sink_dup, task,
                 faults, lg, search_pc, method_i, valid_results, returned, slept, calls,
                 view, command>>

\* the page is past the last one only
InvalidPageAbove(page, results) == page > total_pages(results)

\* l.391
InvalidPage(page, results) == page < 1 \/ page > total_pages(results)

\* l.377-395: parse the data, read the cache, check the page, build the buttons
PageValidate ==
  LET search_key == page_data[1]
      page == page_data[2]
  IN  /\ page_pc = "start"
      /\ IF search_key \notin DOMAIN search_cache
           THEN /\ page_answer' = "Search session expired!"
                /\ page_pc' = "done"
           ELSE IF InvalidPage(page, search_cache[search_key])
           THEN /\ page_answer' = "Invalid page!"
                /\ page_pc' = "done"
           ELSE /\ page_answer' = page_answer
                /\ page_pc' = "edit"
      /\ UNCHANGED <<search_cache, USER_LOCKS, elapsed, AUTO_DELETE_TIME, files, db_titles,
                     store_forwards, store_inserts, pc, data, book, temp_path, handle, err,
                     local, gets, written, progress_msg, answered, sent_msg, sink_dup, task,
                     faults, lg, search_pc, method_i, valid_results, returned, slept, calls,
                     page_data, view, command>>

\* l.403-408: edit the result message, then answer; Telegram refuses an edit
\* that changes nothing, and the handler's except clause answers instead
PageEdit ==
  LET search_key == page_data[1]
      new == View(search_cache[search_key], search_key, page_data[2])
  IN  /\ page_pc = "edit"
      /\ IF new = view[search_key]
           THEN /\ page_answer' = "Error handling pagination!"
                /\ view' = view
           ELSE /\ page_answer' = ""
                /\ view' = [view EXCEPT ![search_key] = new]
      /\ page_pc' = "done"
      /\ UNCHANGED <<search_cache, USER_LOCKS, elapsed, AUTO_DELETE_TIME, files, db_titles,
                     store_forwards, store_inserts, pc, data, book, temp_path, handle, err,
                     local, gets, written, progress_msg, answered, sent_msg, sink_dup, task,
                     faults, lg, search_pc, method_i, valid_results, returned, slept, calls,
                     page_data, command>>

\* the callback is over
PageReturn ==
  /\ page_pc = "done"
  /\ page_data' = NoData
  /\ page_pc' = "idle"
  /\ UNCHANGED <<search_cache, USER_LOCKS, elapsed, AUTO_DELETE_TIME, files, db_titles,
                 store_forwards, store_inserts, pc, data, book, temp_path, handle, err,
                 local, gets, written, progress_msg, answered, sent_msg, sink_dup, task,
                 faults, lg, search_pc, method_i, valid_results, returned, slept, calls,
                 view, page_answer, command>>

InitCommon ==
  /\ USER_LOCKS = [u \in Users |-> [locked |-> FALSE, waiters |-> <<>>]]
  /\ elapsed = [u \in Users |-> 16]
  /\ files = [p \in Paths |-> NoFile]
  /\ db_titles = {}
  /\ store_forwards = [t \in NormTitles |-> 0]
  /\ store_inserts = [t \in NormTitles |-> 0]
  /\ pc = [c \in Callbacks |-> "idle"]
  /\ data = [c \in Callbacks |-> NoData]
  /\ book = [c \in Callbacks |-> NoBook]
  /\ temp_path = [c \in Callbacks |-> NoPath]
  /\ handle = [c \in Callbacks |-> "closed"]
  /\ err = [c \in Callbacks |-> None]
  /\ local = [c \in Callbacks |-> NoLocals]
  /\ gets = [c \in Callbacks |-> 0]
  /\ written = [c \in Callbacks |-> 0]
  /\ progress_msg = [c \in Callbacks |-> NoMessage]
  /\ answered = [c \in Callbacks |-> None]
  /\ sent_msg = [c \in Callbacks |-> FALSE]
  /\ sink_dup = [c \in Callbacks |-> FALSE]
  /\ task = [c \in Callbacks |-> NoTask]

\* Three download selections (two of u1, one of u2) on a cache of small files.
Init ==
  /\ InitCommon
  /\ InitNoPaging
  /\ InitNoSearch
  /\ search_cache = [k \in {"k1"} |-> SmallResults]
  /\ AUTO_DELETE_TIME = 1
  /\ faults = MaxFaults

\* ------------------------------------------------- the per-user lock (l.418)
\* the handler entered without regard to the lock
AcquireUnlocked(c) ==
  /\ pc[c] = "idle"
  /\ USER_LOCKS' = [USER_LOCKS EXCEPT ![UserOf(c)].locked = TRUE]
  /\ pc' = [pc EXCEPT ![c] = "locked"]
  /\ UNCHANGED <<search_cache, elapsed, AUTO_DELETE_TIME, files, db_titles,
                 store_forwards, store_inserts, data, book, temp_path, handle, err,
                 local, gets, written, progress_msg, answered, sent_msg, sink_dup, task,
                 faults, lg, search_pc, method_i, valid_results, returned, slept, calls,
                 page_pc, page_data, view, page_answer, command>>

\* asyncio.Lock.acquire, fast path: not locked and nobody waiting
Acquire(c) ==
  LET u == UserOf(c)
  IN  /\ pc[c] = "idle"
      /\ ~USER_LOCKS[u].locked
      /\ USER_LOCKS[u].waiters = <<>>
      /\ USER_LOCKS' = [USER_LOCKS EXCEPT ![u].locked = TRUE]
      /\ pc' = [pc EXCEPT ![c] = "locked"]
      /\ UNCHANGED <<search_cache, elapsed, AUTO_DELETE_TIME, files, db_titles,
                     store_forwards, store_inserts, data, book, temp_path, handle, err,
                     local, gets, written, progress_msg, answered, sent_msg, sink_dup, task,
                     faults, lg, search_pc, method_i, valid_results, returned, slept, calls,
                     page_pc, page_data, view, page_answer, command>>

\* asyncio.Lock.acquire, slow path: append a future to the waiters and wait
AcquireWait(c) ==
  LET u == UserOf(c)
  IN  /\ pc[c] = "idle"
      /\ USER_LOCKS[u].locked \/ USER_LOCKS[u].waiters # <<>>
      /\ USER_LOCKS' = [USER_LOCKS EXCEPT ![u].waiters = Append(@, c)]
      /\ pc' = [pc EXCEPT ![c] = "waiting"]
      /\ UNCHANGED <<search_cache, elapsed, AUTO_DELETE_TIME, files, db_titles,
                     store_forwards, store_inserts, data, book, temp_path, handle, err,
                     local, gets, written, progress_msg, answered, sent_msg, sink_dup, task,
                     faults, lg, search_pc, method_i, valid_results, returned, slept, calls,
                     page_pc, page_data, view, page_answer, command>>

\* any waiter takes the lock
AcquireWakeAny(c) ==
  LET u == UserOf(c)
      others == [i \in 1 .. Len(USER_LOCKS[u].waiters) - 1 |->
                   IF \E j \in 1 .. i : USER_LOCKS[u].waiters[j] = c
                     THEN USER_LOCKS[u].waiters[i + 1]
                     ELSE USER_LOCKS[u].waiters[i]]
  IN  /\ pc[c] = "waiting"
      /\ ~USER_LOCKS[u].locked
      /\ USER_LOCKS' = [USER_LOCKS EXCEPT ![u] = [locked |-> TRUE, waiters |-> others]]
      /\ pc' = [pc EXCEPT ![c] = "locked"]
      /\ UNCHANGED <<search_cache, elapsed, AUTO_DELETE_TIME, files, db_titles,
                     store_forwards, store_inserts, data, book, temp_path, handle, err,
                     local, gets, written, progress_msg, answered, sent_msg, sink_dup, task,
                     faults, lg, search_pc, method_i, valid_results, returned, slept, calls,
                     page_pc, page_data, view, page_answer, command>>

\* the first waiter, woken by release(), takes the lock
AcquireWake(c) ==
  LET u == UserOf(c)
  IN  /\ pc[c] = "waiting"
      /\ ~USER_LOCKS[u].locked
      /\ USER_LOCKS[u].waiters # <<>>
      /\ Head(USER_LOCKS[u].waiters) = c
      /\ USER_LOCKS' = [USER_LOCKS EXCEPT ![u] = [locked |-> TRUE, waiters |-> Tail(@.waiters)]]
      /\ pc' = [pc EXCEPT ![c] = "locked"]
      /\ UNCHANGED <<search_cache, elapsed, AUTO_DELETE_TIME, files, db_titles,
                     store_forwards, store_inserts, data, book, temp_path, handle, err,
                     local, gets, written, progress_msg, answered, sent_msg, sink_dup, task,
                     faults, lg, search_pc, method_i, valid_results, returned, slept, calls,
                     page_pc, page_data, view, page_answer, command>>

\* asyncio.Lock.release, on leaving the async with block
Release(u) == [USER_LOCKS EXCEPT ![u].locked = FALSE]


\* ------------------------------------------------------------ the messages
\* the outcomes of a call that may raise, while the environment may still fail
Oks == IF faults > 0 THEN {TRUE, FALSE} ELSE {TRUE}
Spend(ok) == IF ok THEN faults ELSE faults - 1

\* progress_msg.edit(text): Telegram refuses a text equal to the one the
\* message shows (MESSAGE_NOT_MODIFIED); any other edit succeeds or raises.
EditOutcomes(c, text) ==
  IF text = progress_msg[c] THEN {"not_modified"}
  ELSE IF faults > 0 THEN {"ok", "error"} ELSE {"ok"}
SpendEdit(r) == IF r = "error" THEN faults - 1 ELSE faults
\* what the message shows after the edit
Shown(c, text, r) == IF r = "ok" THEN text ELSE progress_msg[c]
\* whether a progress edit carries the text of the progress edit before it
\* (last_message is the text of the last progress edit that went through)
Repeats(c, text) == sink_dup[c] \/ text = local[c].last_message

\* progress_msg.edit(text) is called and ends r
Edit(c, text, r) ==
  /\ progress_msg' = [progress_msg EXCEPT ![c] = Shown(c, text, r)]
  /\ faults' = SpendEdit(r)

\* an exception leaves the function the callback runs, to l.473
Raise(c, e) ==
  /\ pc' = [pc EXCEPT ![c] = "except"]
  /\ err' = [err EXCEPT ![c] = e]
  /\ local' = [local EXCEPT ![c] = NoLocals]

\* list indexing, results[index]: a negative index counts from the end
PyIndex(results, i) == IF i >= 0 THEN results[i + 1] ELSE results[Len(results) + i + 1]

\* asyncio.sleep(secs) as LAST_PROGRESS_UPDATE sees it: the seconds since the
\* last update grow by secs
ElapsedClass(x) == IF x > 15 THEN 16 ELSE IF x > 10 THEN 11 ELSE IF x > 2 THEN 3 ELSE 0
Slept(u, secs) == [elapsed EXCEPT ![u] = ElapsedClass(@ + secs)]

\* ----------------------------------------------------- handle_search_command
\* what libgen_search may return to the command: nothing, or two records
SearchAnswers == {<<>>, <<SmallResults[2], SmallResults[1]>>}

\* a key that names a cached session already
AnyKeys == SessionKeys

\* l.344: uuid4() gives a key no session has
FreshKeys == SessionKeys \ DOMAIN search_cache

\* l.336-337, l.366-368: a /search message arrives; without a query the usage
\* hint is sent and the handler returns, with one the reply is sent
SearchCommand ==
  /\ command.pc = "idle"
  /\ FreshKeys # {}
  /\ \E has_query \in BOOLEAN :
       command' = [command EXCEPT !.pc = IF has_query THEN "search" ELSE "idle"]
  /\ UNCHANGED <<search_cache, USER_LOCKS, elapsed, AUTO_DELETE_TIME, files, db_titles,
                 store_forwards, store_inserts, pc, data, book, temp_path, handle, err,
                 local, gets, written, progress_msg, answered, sent_msg, sink_dup, task,
                 faults, lg, search_pc, method_i, valid_results, returned, slept, calls,
                 page_pc, page_data, view, page_answer>>

\* l.339: libgen_search returns
SearchRun ==
  /\ command.pc = "search"
  /\ \E results \in SearchAnswers : returned' = Return_(results)
  /\ command' = [command EXCEPT !.pc = "store"]
  /\ UNCHANGED <<search_cache, USER_LOCKS, elapsed, AUTO_DELETE_TIME, files, db_titles,
                 store_forwards, store_inserts, pc, data, book, temp_path, handle, err,
                 local, gets, written, progress_msg, answered, sent_msg, sink_dup, task,
                 faults, lg, search_pc, method_i, valid_results, slept, calls, page_pc,
                 page_data, view, page_answer>>

\* l.340-352: without results the reply is edited to say so and the handler
\* returns; with results they are cached under a new key
SearchStore ==
  /\ command.pc = "store"
  /\ IF returned.value = <<>>
       THEN /\ command' = NoCommand
            /\ search_cache' = search_cache
       ELSE \E search_key \in FreshKeys :
              /\ search_cache' = [k \in DOMAIN search_cache \cup {search_key} |->
                                    IF k = search_key THEN returned.value
                                    ELSE search_cache[k]]
              /\ command' = [pc |-> "show", search_key |-> search_key]
  /\ returned' = NotReturned
  /\ UNCHANGED <<USER_LOCKS, elapsed, AUTO_DELETE_TIME, files, db_titles,
                 store_forwards, store_inserts, pc, data, book, temp_path, handle, err,
                 local, gets, written, progress_msg, answered, sent_msg, sink_dup, task,
                 faults, lg, search_pc, method_i, valid_results, slept, calls, page_pc,
                 page_data, view, page_answer>>

\* l.360-364, l.369-371: the reply is edited to the first page; if the edit
\* raises, the failure is replied and the session stays cached
SearchShow ==
  /\ command.pc = "show"
  /\ \E ok \in Oks :
       /\ faults' = Spend(ok)
       /\ view' = IF ok
                    THEN [view EXCEPT ![command.search_key] =
                            View(search_cache[command.search_key], command.search_key, 1)]
                    ELSE view
  /\ command' = NoCommand
  /\ UNCHANGED <<search_cache, USER_LOCKS, elapsed, AUTO_DELETE_TIME, files, db_titles,
                 store_forwards, store_inserts, pc, data, book, temp_path, handle, err,
                 local, gets, written, progress_msg, answered, sent_msg, sink_dup, task,
                 lg, search_pc, method_i, valid_results, returned, slept, calls,
                 page_pc, page_data, page_answer>>

handle_search_command == SearchCommand \/ SearchRun \/ SearchStore \/ SearchShow

handle_pagination == PageCallback \/ PageValidate \/ PageEdit \/ PageReturn

\* ------------------------------------------- handle_download_callback, entry
\* l.420-438: parse the callback data, read the cache, pick the book
Validate(c) ==
  /\ pc[c] = "locked"
  /\ \E k \in SessionKeys :
       LET found == k \in DOMAIN search_cache
           cached == IF found THEN search_cache[k] ELSE <<>>
       IN  \E i \in (IF found THEN -1 .. Len(cached) ELSE {0}) :
             /\ data' = [data EXCEPT ![c] = <<k, i>>]
             /\ IF ~found
                  THEN /\ answered' = [answered EXCEPT ![c] = "Session expired! Please search again"]
                       /\ pc' = [pc EXCEPT ![c] = "return"]
                       /\ book' = book
                  ELSE IF i >= Len(cached)
                  THEN /\ answered' = [answered EXCEPT ![c] = "Invalid selection!"]
                       /\ pc' = [pc EXCEPT ![c] = "return"]
                       /\ book' = book
                  ELSE IF PyIndex(cached, i).Direct_Download_Link = ""
                  THEN /\ answered' = [answered EXCEPT ![c] = "No direct download available"]
                       /\ pc' = [pc EXCEPT ![c] = "return"]
                       /\ book' = [book EXCEPT ![c] = PyIndex(cached, i)]
                  ELSE /\ answered' = answered
                       /\ pc' = [pc EXCEPT ![c] = "starting"]
                       /\ book' = [book EXCEPT ![c] = PyIndex(cached, i)]
  /\ UNCHANGED <<search_cache, USER_LOCKS, elapsed, AUTO_DELETE_TIME, files, db_titles,
                 store_forwards, store_inserts, temp_path, handle, err, local, gets,
                 written, progress_msg, sent_msg, sink_dup, task, faults, lg, search_pc,
                 method_i, valid_results, returned, slept, calls, page_pc, page_data,
                 view, page_answer, command>>

\* l.440-448: answer, reply with the progress message, derive temp_path.
\* Either call may raise: the outer except logs it and the handler returns.
StartDownload(c) ==
  /\ pc[c] = "starting"
  /\ \E ok \in Oks :
       /\ faults' = Spend(ok)
       /\ IF ok
            THEN /\ answered' = [answered EXCEPT ![c] = "Starting download..."]
                 /\ progress_msg' = [progress_msg EXCEPT ![c] = <<"Downloading book from server...">>]
                 /\ temp_path' = [temp_path EXCEPT ![c] = TempPath(book[c])]
                 /\ pc' = [pc EXCEPT ![c] = "edit0"]
            ELSE /\ pc' = [pc EXCEPT ![c] = "return"]
                 /\ UNCHANGED <<answered, progress_msg, temp_path>>
  /\ data' = [data EXCEPT ![c] = NoData]
  /\ UNCHANGED <<search_cache, USER_LOCKS, elapsed, AUTO_DELETE_TIME, files, db_titles,
                 store_forwards, store_inserts, book, handle, err, local, gets, written,
                 sent_msg, sink_dup, task, lg, search_pc, method_i, valid_results,
                 returned, slept, calls, page_pc, page_data, view, page_answer, command>>

\* l.427, l.432, l.438, l.487-488: the handler returns before the file
\* handling, and the async with block releases the lock
Return(c) ==
  /\ pc[c] = "return"
  /\ USER_LOCKS' = Release(UserOf(c))
  /\ pc' = [pc EXCEPT ![c] = "done"]
  /\ book' = [book EXCEPT ![c] = NoBook]
  /\ data' = [data EXCEPT ![c] = NoData]
  /\ answered' = [answered EXCEPT ![c] = None]
  /\ UNCHANGED <<search_cache, elapsed, AUTO_DELETE_TIME, files, db_titles,
                 store_forwards, store_inserts, temp_path, handle, err, local, gets,
                 written, progress_msg, sent_msg, sink_dup, task, faults, lg, search_pc,
                 method_i, valid_results, returned, slept, calls, page_pc, page_data,
                 view, page_answer, command>>

\* l.451: progress_msg.edit("Downloading file... (0%)"), then
\* download_libgen_file starts (l.129-135)
EditZero(c) ==
  /\ pc[c] = "edit0"
  /\ \E r \in EditOutcomes(c, <<"Downloading file... (%)", 0>>) :
       /\ Edit(c, <<"Downloading file... (%)", 0>>, r)
       /\ IF r = "ok"
            THEN /\ pc' = [pc EXCEPT ![c] = "get"]
                 /\ UNCHANGED <<err, local>>
            ELSE Raise(c, "Exception")
  /\ UNCHANGED <<search_cache, USER_LOCKS, elapsed, AUTO_DELETE_TIME, files, db_titles,
                 store_forwards, store_inserts, data, book, temp_path, handle, gets,
                 written, answered, sent_msg, sink_dup, task, lg, search_pc, method_i,
                 valid_results, returned, slept, calls, page_pc, page_data, view,
                 page_answer, command>>

\* ------------------------------------------------------ download_libgen_file
RECURSIVE SumSeq(_)
SumSeq(s) == IF s = <<>> THEN 0 ELSE Head(s) + SumSeq(Tail(s))

NoUpdate == [kind |-> "none", text |-> <<>>, percent |-> 0]

\* l.175-198: which progress edit, if any, follows a written chunk.
\* total > 0 is total_size, dl is downloaded, lp and lm are last_percent and
\* last_message, el the seconds since LAST_PROGRESS_UPDATE[user_id][1].
DownloadUpdate(total, dl, lp, lm, el) ==
  LET percent == Round(dl * 100, total)
      message == <<"Downloading file... (%)", percent>>
  IN  IF (percent # lp /\ percent - lp >= 1) \/ el > 2
        THEN IF message # lm
               THEN [kind |-> "percent", text |-> message, percent |-> percent]
               ELSE NoUpdate
      ELSE IF total > LargeFile /\ el > 10
        THEN [kind |-> "large", percent |-> percent,
              text |-> <<"Downloading large file... (MB/MB)",
                         dl \div KB_PER_MB, total \div KB_PER_MB>>]
      ELSE NoUpdate

\* l.202-207: a ClientError or TimeoutError is retried while attempt < max_retries - 1
MayRetry(a) == a < max_retries - 1

\* l.202-207: the except clause of an attempt that met a transport error
TransportError(c) ==
  IF MayRetry(local[c].attempt)
    THEN /\ local' = [local EXCEPT ![c].attempt = @ + 1, ![c].downloaded = 0,
                                   ![c].total_size = 0]
         /\ pc' = [pc EXCEPT ![c] = "backoff"]
         /\ err' = err
    ELSE Raise(c, "ClientError")

\* l.137, l.202-207: session.get raises a transport error
GetTransportError(c) ==
  /\ pc[c] = "get"
  /\ faults > 0
  /\ faults' = faults - 1
  /\ gets' = [gets EXCEPT ![c] = @ + 1]
  /\ TransportError(c)
  /\ UNCHANGED <<search_cache, USER_LOCKS, elapsed, AUTO_DELETE_TIME, files, db_titles,
                 store_forwards, store_inserts, data, book, temp_path, handle, written,
                 progress_msg, answered, sent_msg, sink_dup, task, lg, search_pc,
                 method_i, valid_results, returned, slept, calls, page_pc, page_data,
                 view, page_answer, command>>

\* l.205: asyncio.sleep(retry_delay), then the next attempt
Backoff(c) ==
  /\ pc[c] = "backoff"
  /\ elapsed' = Slept(UserOf(c), retry_delay)
  /\ pc' = [pc EXCEPT ![c] = "get"]
  /\ UNCHANGED <<search_cache, USER_LOCKS, AUTO_DELETE_TIME, files, db_titles,
                 store_forwards, store_inserts, data, book, temp_path, handle, err,
                 local, gets, written, progress_msg, answered, sent_msg, sink_dup, task,
                 faults, lg, search_pc, method_i, valid_results, returned, slept, calls,
                 page_pc, page_data, view, page_answer, command>>

\* l.138-139: a response whose status is not 200
GetBadStatus(c) ==
  /\ pc[c] = "get"
  /\ faults > 0
  /\ faults' = faults - 1
  /\ gets' = [gets EXCEPT ![c] = @ + 1]
  /\ Raise(c, "Exception")
  /\ UNCHANGED <<search_cache, USER_LOCKS, elapsed, AUTO_DELETE_TIME, files, db_titles,
                 store_forwards, store_inserts, data, book, temp_path, handle, written,
                 progress_msg, answered, sent_msg, sink_dup, task, lg, search_pc,
                 method_i, valid_results, returned, slept, calls, page_pc, page_data,
                 view, page_answer, command>>

\* the file opened for appending ('ab'): what it holds is kept
OpenAppending(p) == [files EXCEPT ![p] = [exists |-> TRUE, content |-> @.content]]

\* l.157: aiofiles.open(temp_path, 'wb') creates the file or truncates it
OpenWb(p) == [files EXCEPT ![p] = [exists |-> TRUE, content |-> <<>>]]

\* l.141-157: a 200 response; over the size limit the notice is next,
\* otherwise the file is opened for writing
GetResponse(c) ==
  LET total == Server[book[c].Direct_Download_Link].content_length
      p == temp_path[c]
  IN  /\ pc[c] = "get"
      /\ gets' = [gets EXCEPT ![c] = @ + 1]
      /\ local' = [local EXCEPT ![c].total_size = total, ![c].downloaded = 0]
      /\ IF total # 0 /\ total > SizeLimit
           THEN /\ pc' = [pc EXCEPT ![c] = "too_large"]
                /\ UNCHANGED <<files, handle>>
           ELSE /\ pc' = [pc EXCEPT ![c] = "stream"]
                /\ files' = OpenWb(p)
                /\ handle' = [handle EXCEPT ![c] = "open"]
      /\ UNCHANGED <<search_cache, USER_LOCKS, elapsed, AUTO_DELETE_TIME, db_titles,
                     store_forwards, store_inserts, data, book, temp_path, err, written,
                     progress_msg, answered, sent_msg, sink_dup, task, faults, lg,
                     search_pc, method_i, valid_results, returned, slept, calls, page_pc,
                     page_data, view, page_answer, command>>

\* l.145-153: edit the progress message to the size notice, raise FILE_TOO_LARGE;
\* if the edit raises, its exception leaves the function instead
TooLarge(c) ==
  LET text == <<"File Size Limit Exceeded", Round(local[c].total_size, KB_PER_MB)>>
  IN  /\ pc[c] = "too_large"
      /\ \E r \in EditOutcomes(c, text) :
           /\ Edit(c, text, r)
           /\ Raise(c, IF r = "ok" THEN "FILE_TOO_LARGE" ELSE "Exception")
      /\ UNCHANGED <<search_cache, USER_LOCKS, elapsed, AUTO_DELETE_TIME, files, db_titles,
                     store_forwards, store_inserts, data, book, temp_path, handle, gets,
                     written, answered, sent_msg, sink_dup, task, lg, search_pc, method_i,
                     valid_results, returned, slept, calls, page_pc, page_data, view,
                     page_answer, command>>

\* response.content.iter_chunked(2MB) yields at most 2 MB of what is left
ChunkSizes(left, short) ==
  {Min(ChunkMax, left)} \cup {s \in {KB_PER_MB} : short /\ s < left}

\* l.158: the next chunk of the body arrives
ReadChunk(c) ==
  LET srv == Server[book[c].Direct_Download_Link]
      left == srv.body - local[c].downloaded
  IN  /\ pc[c] = "stream"
      /\ left > 0
      /\ \E sz \in ChunkSizes(left, srv.short_reads) :
           local' = [local EXCEPT ![c].chunk = sz, ![c].write_attempt = 0]
      /\ pc' = [pc EXCEPT ![c] = "write"]
      /\ UNCHANGED <<search_cache, USER_LOCKS, elapsed, AUTO_DELETE_TIME, files, db_titles,
                     store_forwards, store_inserts, data, book, temp_path, handle, err,
                     gets, written, progress_msg, answered, sent_msg, sink_dup, task,
                     faults, lg, search_pc, method_i, valid_results, returned, slept, calls,
                     page_pc, page_data, view, page_answer, command>>

\* l.158, l.202-207: the body breaks off (payload error, timeout); the file is closed
StreamError(c) ==
  /\ pc[c] = "stream"
  /\ faults > 0
  /\ faults' = faults - 1
  /\ handle' = [handle EXCEPT ![c] = "closed"]
  /\ TransportError(c)
  /\ UNCHANGED <<search_cache, USER_LOCKS, elapsed, AUTO_DELETE_TIME, files, db_titles,
                 store_forwards, store_inserts, data, book, temp_path, gets, written,
                 progress_msg, answered, sent_msg, sink_dup, task, lg, search_pc,
                 method_i, valid_results, returned, slept, calls, page_pc, page_data,
                 view, page_answer, command>>

\* l.163-198: f.write(chunk) succeeds; downloaded grows; the progress update.
\* A handle whose file was unlinked writes to a file no path names.
WriteOk(c) ==
  LET u == UserOf(c)
      p == temp_path[c]
      l == local[c]
      dl == l.downloaded + l.chunk
      upd == IF l.total_size = 0 THEN NoUpdate
             ELSE DownloadUpdate(l.total_size, dl, l.last_percent, l.last_message, elapsed[u])
  IN  /\ pc[c] = "write"
      /\ files' = IF handle[c] = "open"
                    THEN [files EXCEPT ![p].content = Append(@, l.chunk)] ELSE files
      /\ written' = [written EXCEPT ![c] = @ + l.chunk]
      /\ pc' = [pc EXCEPT ![c] = "stream"]
      /\ IF upd.kind = "none"
           THEN /\ local' = [local EXCEPT ![c].downloaded = dl, ![c].chunk = 0]
                /\ UNCHANGED <<progress_msg, sink_dup, elapsed, faults>>
           ELSE \E r \in EditOutcomes(c, upd.text) :
                  /\ Edit(c, upd.text, r)
                  /\ sink_dup' = [sink_dup EXCEPT ![c] = Repeats(c, upd.text)]
                  /\ elapsed' = IF r = "ok" THEN [elapsed EXCEPT ![u] = 0] ELSE elapsed
                  /\ local' = IF r = "ok" /\ upd.kind = "percent"
                       THEN [local EXCEPT ![c].downloaded = dl, ![c].chunk = 0,
                                          ![c].last_percent = upd.percent,
                                          ![c].last_message = upd.text]
                       ELSE [local EXCEPT ![c].downloaded = dl, ![c].chunk = 0]
      /\ UNCHANGED <<search_cache, USER_LOCKS, AUTO_DELETE_TIME, db_titles, store_forwards,
                     store_inserts, data, book, temp_path, handle, err, gets, answered,
                     sent_msg, task, lg, search_pc, method_i, valid_results, returned,
                     slept, calls, page_pc, page_data, view, page_answer, command>>

\* l.163-170: f.write(chunk) raises; the last attempt re-raises, the others
\* sleep a second and write again
WriteFail(c) ==
  /\ pc[c] = "write"
  /\ faults > 0
  /\ faults' = faults - 1
  /\ IF local[c].write_attempt = WRITE_ATTEMPTS - 1
       THEN /\ Raise(c, "Exception")
            /\ handle' = [handle EXCEPT ![c] = "closed"]
            /\ elapsed' = elapsed
       ELSE /\ local' = [local EXCEPT ![c].write_attempt = @ + 1]
            /\ elapsed' = Slept(UserOf(c), 1)
            /\ UNCHANGED <<pc, err, handle>>
  /\ UNCHANGED <<search_cache, USER_LOCKS, AUTO_DELETE_TIME, files, db_titles,
                 store_forwards, store_inserts, data, book, temp_path, gets, written,
                 progress_msg, answered, sent_msg, sink_dup, task, lg, search_pc,
                 method_i, valid_results, returned, slept, calls, page_pc, page_data,
                 view, page_answer, command>>

\* l.199-200: the body is complete, the file is closed, the function returns
FetchReturn(c) ==
  /\ pc[c] = "stream"
  /\ local[c].downloaded = Server[book[c].Direct_Download_Link].body
  /\ handle' = [handle EXCEPT ![c] = "closed"]
  /\ local' = [local EXCEPT ![c] = NoLocals]
  /\ pc' = [pc EXCEPT ![c] = "edit_upload"]
  /\ UNCHANGED <<search_cache, USER_LOCKS, elapsed, AUTO_DELETE_TIME, files, db_titles,
                 store_forwards, store_inserts, data, book, temp_path, err, gets,
                 written, progress_msg, answered, sent_msg, sink_dup, task, faults, lg,
                 search_pc, method_i, valid_results, returned, slept, calls, page_pc,
                 page_data, view, page_answer, command>>

\* ------------------------------------------------------- upload_to_telegram
\* The transport calls progress(current, total) after every part it sent.
PartSize == KB_PER_MB \div 2

\* l.216-251: which progress edit, if any, progress(cur, total) makes
UploadUpdate(total, cur, lp, el) ==
  LET percent == Round(cur * 100, total)
      mb_current == cur \div KB_PER_MB
      mb_total == total \div KB_PER_MB
      \* last_percent * total // 100 // 1024 // 1024, total in bytes
      last_mb == (lp * total) \div (100 * KB_PER_MB)
  IN  IF total > LargeFile
        THEN IF mb_current - last_mb >= 5 \/ el > 15
               THEN [kind |-> "percent", percent |-> percent,
                     text |-> <<"Uploading MB (MB sent)...", mb_total, mb_current>>]
               ELSE NoUpdate
      ELSE IF (percent # lp /\ percent - lp >= 1) \/ el > 2
        THEN [kind |-> "percent", percent |-> percent, text |-> <<"Uploading... (%)", percent>>]
      ELSE NoUpdate

\* l.459: progress_msg.edit("Uploading to Telegram...")
EditUploading(c) ==
  /\ pc[c] = "edit_upload"
  /\ gets' = [gets EXCEPT ![c] = 0]
  /\ written' = [written EXCEPT ![c] = 0]
  /\ \E r \in EditOutcomes(c, <<"Uploading to Telegram...">>) :
       /\ Edit(c, <<"Uploading to Telegram...">>, r)
       /\ IF r = "ok"
            THEN /\ pc' = [pc EXCEPT ![c] = "upload"]
                 /\ UNCHANGED <<err, local>>
            ELSE Raise(c, "Exception")
  /\ UNCHANGED <<search_cache, USER_LOCKS, elapsed, AUTO_DELETE_TIME, files, db_titles,
                 store_forwards, store_inserts, data, book, temp_path, handle, answered,
                 sent_msg, sink_dup, task, lg, search_pc, method_i, valid_results,
                 returned, slept, calls, page_pc, page_data, view, page_answer, command>>

\* l.210-214, l.254: upload_to_telegram is entered (again, after a FloodWait);
\* send_document reads the file at temp_path, and raises without one
UploadStart(c) ==
  LET p == temp_path[c]
  IN  /\ pc[c] = "upload"
      /\ IF ~files[p].exists \/ files[p].content = <<>>
           THEN Raise(c, "Exception")
           ELSE /\ pc' = [pc EXCEPT ![c] = "uploading"]
                /\ local' = [local EXCEPT ![c] = [NoLocals EXCEPT !.total = SumSeq(files[p].content)]]
                /\ err' = err
      /\ UNCHANGED <<search_cache, USER_LOCKS, elapsed, AUTO_DELETE_TIME, files, db_titles,
                     store_forwards, store_inserts, data, book, temp_path, handle, gets,
                     written, progress_msg, answered, sent_msg, sink_dup, task, faults, lg,
                     search_pc, method_i, valid_results, returned, slept, calls, page_pc,
                     page_data, view, page_answer, command>>

\* l.216-251: a part is sent and the transport calls progress(current, total)
UploadProgress(c) ==
  LET u == UserOf(c)
      l == local[c]
      cur == Min(l.current + PartSize, l.total)
      upd == UploadUpdate(l.total, cur, l.last_percent, elapsed[u])
  IN  /\ pc[c] = "uploading"
      /\ l.current < l.total
      /\ IF upd.kind = "none"
           THEN /\ local' = [local EXCEPT ![c].current = cur]
                /\ UNCHANGED <<progress_msg, sink_dup, elapsed, faults>>
           ELSE \E r \in EditOutcomes(c, upd.text) :
                  /\ Edit(c, upd.text, r)
                  /\ sink_dup' = [sink_dup EXCEPT ![c] = Repeats(c, upd.text)]
                  /\ elapsed' = IF r = "ok" THEN [elapsed EXCEPT ![u] = 0] ELSE elapsed
                  /\ local' = IF r = "ok"
                       THEN [local EXCEPT ![c].current = cur,
                                          ![c].last_percent = upd.percent,
                                          ![c].last_message = upd.text]
                       ELSE [local EXCEPT ![c].current = cur]
      /\ UNCHANGED <<search_cache, USER_LOCKS, AUTO_DELETE_TIME, files, db_titles,
                     store_forwards, store_inserts, pc, data, book, temp_path, handle, err,
                     gets, written, answered, sent_msg, task, lg, search_pc, method_i,
                     valid_results, returned, slept, calls, page_pc, page_data, view,
                     page_answer, command>>

\* l.254-259: send_document returns the delivered message
UploadDone(c) ==
  /\ pc[c] = "uploading"
  /\ local[c].current = local[c].total
  /\ sent_msg' = [sent_msg EXCEPT ![c] = TRUE]
  /\ local' = [local EXCEPT ![c] = NoLocals]
  /\ pc' = [pc EXCEPT ![c] = "auto_delete"]
  /\ UNCHANGED <<search_cache, USER_LOCKS, elapsed, AUTO_DELETE_TIME, files, db_titles,
                 store_forwards, store_inserts, data, book, temp_path, handle, err,
                 gets, written, progress_msg, answered, sink_dup, task, faults, lg,
                 search_pc, method_i, valid_results, returned, slept, calls, page_pc,
                 page_data, view, page_answer, command>>

\* l.254, l.260: send_document raises FloodWait, which upload_to_telegram
\* catches
UploadFloodWait(c) ==
  /\ pc[c] = "uploading"
  /\ faults > 0
  /\ faults' = faults - 1
  /\ local' = [local EXCEPT ![c] = NoLocals]
  /\ pc' = [pc EXCEPT ![c] = "flood_notice"]
  /\ UNCHANGED <<search_cache, USER_LOCKS, elapsed, AUTO_DELETE_TIME, files, db_titles,
                 store_forwards, store_inserts, data, book, temp_path, handle, err,
                 gets, written, progress_msg, answered, sent_msg, sink_dup, task, lg,
                 search_pc, method_i, valid_results, returned, slept, calls, page_pc,
                 page_data, view, page_answer, command>>

\* l.261: the progress message is edited to the flood-wait notice; an
\* exception of this edit leaves upload_to_telegram
FloodNotice(c) ==
  /\ pc[c] = "flood_notice"
  /\ \E r \in EditOutcomes(c, <<"Flood wait: Please wait seconds">>) :
       /\ Edit(c, <<"Flood wait: Please wait seconds">>, r)
       /\ IF r = "ok"
            THEN /\ pc' = [pc EXCEPT ![c] = "flood_sleep"]
                 /\ UNCHANGED <<err, local>>
            ELSE Raise(c, "Exception")
  /\ UNCHANGED <<search_cache, USER_LOCKS, elapsed, AUTO_DELETE_TIME, files, db_titles,
                 store_forwards, store_inserts, data, book, temp_path, handle, gets,
                 written, answered, sent_msg, sink_dup, task, lg, search_pc, method_i,
                 valid_results, returned, slept, calls, page_pc, page_data, view,
                 page_answer, command>>

\* l.262-263: asyncio.sleep(e.value), then the whole upload again
FloodSleep(c) ==
  /\ pc[c] = "flood_sleep"
  /\ \E secs \in {1, 16} : elapsed' = Slept(UserOf(c), secs)
  /\ pc' = [pc EXCEPT ![c] = "upload"]
  /\ UNCHANGED <<search_cache, USER_LOCKS, AUTO_DELETE_TIME, files, db_titles,
                 store_forwards, store_inserts, data, book, temp_path, handle, err,
                 local, gets, written, progress_msg, answered, sent_msg, sink_dup, task,
                 faults, lg, search_pc, method_i, valid_results, returned, slept, calls,
                 page_pc, page_data, view, page_answer, command>>

\* l.254: send_document raises anything else
UploadFail(c) ==
  /\ pc[c] = "uploading"
  /\ faults > 0
  /\ faults' = faults - 1
  /\ Raise(c, "Exception")
  /\ UNCHANGED <<search_cache, USER_LOCKS, elapsed, AUTO_DELETE_TIME, files, db_titles,
                 store_forwards, store_inserts, data, book, temp_path, handle, gets,
                 written, progress_msg, answered, sent_msg, sink_dup, task, lg,
                 search_pc, method_i, valid_results, returned, slept, calls, page_pc,
                 page_data, view, page_answer, command>>

\* ------------------------------------------------------ handle_auto_delete
\* l.265-282: with a positive delay, send the notice (which may raise) and
\* create the deletion task
HandleAutoDelete(c) ==
  /\ pc[c] = "auto_delete"
  /\ IF AUTO_DELETE_TIME > 0
       THEN \E ok \in Oks :
              /\ faults' = Spend(ok)
              /\ IF ok
                   THEN /\ task' = [task EXCEPT ![c] =
                                      [NoTask EXCEPT !.state = "sleeping",
                                                     !.deleter_msg = <<"AUTO_DELETE_MSG">>]]
                        /\ pc' = [pc EXCEPT ![c] = "log"]
                        /\ UNCHANGED <<err, local>>
                   ELSE /\ Raise(c, "Exception")
                        /\ task' = task
       ELSE /\ pc' = [pc EXCEPT ![c] = "log"]
            /\ UNCHANGED <<task, err, local, faults>>
  /\ UNCHANGED <<search_cache, USER_LOCKS, elapsed, AUTO_DELETE_TIME, files, db_titles,
                 store_forwards, store_inserts, data, book, temp_path, handle, gets,
                 written, progress_msg, answered, sent_msg, sink_dup, lg, search_pc,
                 method_i, valid_results, returned, slept, calls, page_pc, page_data,
                 view, page_answer, command>>

\* a sleep that returns one time unit early
SleepOverEarly(c) == task[c].waited >= AUTO_DELETE_TIME - 1

\* l.275: asyncio.sleep(AUTO_DELETE_TIME) returns when the delay has passed
SleepOver(c) == task[c].waited >= AUTO_DELETE_TIME

\* l.275: a time unit passes for the sleeping task
TaskSleep(c) ==
  /\ task[c].state = "sleeping"
  /\ ~SleepOver(c)
  /\ task' = [task EXCEPT ![c].waited = @ + 1]
  /\ UNCHANGED <<search_cache, USER_LOCKS, elapsed, AUTO_DELETE_TIME, files, db_titles,
                 store_forwards, store_inserts, pc, data, book, temp_path, handle, err,
                 local, gets, written, progress_msg, answered, sent_msg, sink_dup,
                 faults, lg, search_pc, method_i, valid_results, returned, slept, calls,
                 page_pc, page_data, view, page_answer, command>>

\* l.276-277, l.279-280: auto_delete_task after its sleep deletes the
\* delivered message; a failure is logged and ends the task
AutoDeleteTask(c) ==
  /\ task[c].state = "sleeping"
  /\ SleepOver(c)
  /\ \E ok \in Oks :
       /\ faults' = Spend(ok)
       /\ task' = [task EXCEPT ![c].state = IF ok THEN "edit" ELSE "failed",
                               ![c].deleted = ok]
  /\ UNCHANGED <<search_cache, USER_LOCKS, elapsed, AUTO_DELETE_TIME, files, db_titles,
                 store_forwards, store_inserts, pc, data, book, temp_path, handle, err,
                 local, gets, written, progress_msg, answered, sent_msg, sink_dup, lg,
                 search_pc, method_i, valid_results, returned, slept, calls, page_pc,
                 page_data, view, page_answer, command>>

\* l.278-280: the notice is edited to FILE_DELETED_MSG; a failure is logged
DeleterEdit(c) ==
  /\ task[c].state = "edit"
  /\ \E ok \in Oks :
       /\ faults' = Spend(ok)
       /\ task' = IF ok
                    THEN [task EXCEPT ![c].state = "ended",
                                      ![c].deleter_msg = <<"FILE_DELETED_MSG">>,
                                      ![c].edits = @ + 1]
                    ELSE [task EXCEPT ![c].state = "failed"]
  /\ UNCHANGED <<search_cache, USER_LOCKS, elapsed, AUTO_DELETE_TIME, files, db_titles,
                 store_forwards, store_inserts, pc, data, book, temp_path, handle, err,
                 local, gets, written, progress_msg, answered, sent_msg, sink_dup, lg,
                 search_pc, method_i, valid_results, returned, slept, calls, page_pc,
                 page_data, view, page_answer, command>>

\* ------------------------------------------------------------ log_download
\* l.287-311: send the document to LOG_CHANNEL, then normalize the title.
\* Any exception (also a missing file) is logged and log_download returns.
LogDownload(c) ==
  LET clean_title == NormalizeTitle(book[c].Title)
  IN  /\ pc[c] = "log"
      /\ \E ok \in Oks :
           /\ faults' = Spend(ok)
           /\ pc' = [pc EXCEPT ![c] =
                       IF ~ok \/ ~files[temp_path[c]].exists THEN "delete_progress"
                       ELSE IF clean_title = <<>> \/ clean_title = Unknown THEN "delete_progress"
                       ELSE "is_title_exists"]
      /\ UNCHANGED <<search_cache, USER_LOCKS, elapsed, AUTO_DELETE_TIME, files, db_titles,
                     store_forwards, store_inserts, data, book, temp_path, handle, err,
                     local, gets, written, progress_msg, answered, sent_msg, sink_dup, task,
                     lg, search_pc, method_i, valid_results, returned, slept, calls,
                     page_pc, page_data, view, page_answer, command>>

\* l.314: db.is_title_exists(clean_title)
IsTitleExists(c) ==
  LET clean_title == NormalizeTitle(book[c].Title)
  IN  /\ pc[c] = "is_title_exists"
      /\ \E ok \in Oks :
           /\ faults' = Spend(ok)
           /\ pc' = [pc EXCEPT ![c] =
                       IF ok /\ clean_title \notin db_titles THEN "store_send"
                       ELSE "delete_progress"]
      /\ UNCHANGED <<search_cache, USER_LOCKS, elapsed, AUTO_DELETE_TIME, files, db_titles,
                     store_forwards, store_inserts, data, book, temp_path, handle, err,
                     local, gets, written, progress_msg, answered, sent_msg, sink_dup, task,
                     lg, search_pc, method_i, valid_results, returned, slept, calls,
                     page_pc, page_data, view, page_answer, command>>

\* l.316-321: send the document to FILE_STORE_CHANNEL[0]
StoreSend(c) ==
  LET clean_title == NormalizeTitle(book[c].Title)
  IN  /\ pc[c] = "store_send"
      /\ \E ok \in Oks :
           /\ faults' = Spend(ok)
           /\ IF ok /\ files[temp_path[c]].exists
                THEN /\ store_forwards' = [store_forwards EXCEPT ![clean_title] = @ + 1]
                     /\ pc' = [pc EXCEPT ![c] = "add_file_title"]
                ELSE /\ store_forwards' = store_forwards
                     /\ pc' = [pc EXCEPT ![c] = "delete_progress"]
      /\ UNCHANGED <<search_cache, USER_LOCKS, elapsed, AUTO_DELETE_TIME, files, db_titles,
                     store_inserts, data, book, temp_path, handle, err, local, gets,
                     written, progress_msg, answered, sent_msg, sink_dup, task, lg,
                     search_pc, method_i, valid_results, returned, slept, calls, page_pc,
                     page_data, view, page_answer, command>>

\* l.324: db.add_file_title(clean_title)
AddFileTitle(c) ==
  LET clean_title == NormalizeTitle(book[c].Title)
  IN  /\ pc[c] = "add_file_title"
      /\ \E ok \in Oks :
           /\ faults' = Spend(ok)
           /\ IF ok
                THEN /\ db_titles' = db_titles \cup {clean_title}
                     /\ store_inserts' = [store_inserts EXCEPT ![clean_title] = @ + 1]
                ELSE UNCHANGED <<db_titles, store_inserts>>
      /\ pc' = [pc EXCEPT ![c] = "delete_progress"]
      /\ UNCHANGED <<search_cache, USER_LOCKS, elapsed, AUTO_DELETE_TIME, files,
                     store_forwards, data, book, temp_path, handle, err, local, gets,
                     written, progress_msg, answered, sent_msg, sink_dup, task, lg,
                     search_pc, method_i, valid_results, returned, slept, calls, page_pc,
                     page_data, view, page_answer, command>>

\* ------------------------------------- handle_download_callback, the ending
\* l.471: progress_msg.delete()
DeleteProgress(c) ==
  /\ pc[c] = "delete_progress"
  /\ \E ok \in Oks :
       /\ faults' = Spend(ok)
       /\ IF ok
            THEN /\ progress_msg' = [progress_msg EXCEPT ![c] = NoMessage]
                 /\ pc' = [pc EXCEPT ![c] = "finally"]
                 /\ UNCHANGED <<err, local>>
            ELSE /\ progress_msg' = progress_msg
                 /\ Raise(c, "Exception")
  /\ UNCHANGED <<search_cache, USER_LOCKS, elapsed, AUTO_DELETE_TIME, files, db_titles,
                 store_forwards, store_inserts, data, book, temp_path, handle, gets,
                 written, answered, sent_msg, sink_dup, task, lg, search_pc, method_i,
                 valid_results, returned, slept, calls, page_pc, page_data, view,
                 page_answer, command>>

\* l.473-480: FILE_TOO_LARGE passes; anything else is logged and shown as a
\* failure, and the handler sleeps.  If that edit raises, the finally block
\* runs and the outer except logs.
Except(c) ==
  /\ pc[c] = "except"
  /\ gets' = [gets EXCEPT ![c] = 0]
  /\ written' = [written EXCEPT ![c] = 0]
  /\ IF err[c] = "FILE_TOO_LARGE"
       THEN /\ pc' = [pc EXCEPT ![c] = "finally"]
            /\ UNCHANGED <<progress_msg, sink_dup, faults>>
       ELSE \E r \in EditOutcomes(c, <<"Download failed">>) :
              /\ Edit(c, <<"Download failed">>, r)
              /\ pc' = [pc EXCEPT ![c] = IF r = "ok" THEN "fail_sleep" ELSE "finally"]
  /\ UNCHANGED <<search_cache, USER_LOCKS, elapsed, AUTO_DELETE_TIME, files, db_titles,
                 store_forwards, store_inserts, data, book, temp_path, handle, err,
                 local, answered, sent_msg, sink_dup, task, lg, search_pc, method_i,
                 valid_results, returned, slept, calls, page_pc, page_data, view,
                 page_answer, command>>

\* l.480: asyncio.sleep(5)
FailSleep(c) ==
  /\ pc[c] = "fail_sleep"
  /\ elapsed' = Slept(UserOf(c), 5)
  /\ pc' = [pc EXCEPT ![c] = "finally"]
  /\ UNCHANGED <<search_cache, USER_LOCKS, AUTO_DELETE_TIME, files, db_titles,
                 store_forwards, store_inserts, data, book, temp_path, handle, err,
                 local, gets, written, progress_msg, answered, sent_msg, sink_dup, task,
                 faults, lg, search_pc, method_i, valid_results, returned, slept, calls,
                 page_pc, page_data, view, page_answer, command>>

\* os.remove(path): the path names no file any more; a handle another
\* coroutine holds on the file keeps the unlinked file
Removed(p) == [c \in Callbacks |->
                 IF temp_path[c] = p /\ handle[c] = "open" THEN "orphan" ELSE handle[c]]

\* the handler without the removal
CleanupSkipped(p) == files

\* l.482-485: if the file exists, remove it (os.remove unlinks a file the
\* process wrote under downloads/; it is taken not to raise)
Cleanup(p) == IF files[p].exists THEN [files EXCEPT ![p] = NoFile] ELSE files

\* l.482-488: the finally block, then the async with block releases the lock
\* (no await lies between them)
Finally(c) ==
  LET p == temp_path[c]
  IN  /\ pc[c] = "finally"
      /\ files' = Cleanup(p)
      /\ handle' = IF Cleanup(p) = files THEN handle ELSE Removed(p)
      /\ USER_LOCKS' = Release(UserOf(c))
      /\ pc' = [pc EXCEPT ![c] = "done"]
      /\ book' = [book EXCEPT ![c] = NoBook]
      /\ temp_path' = [temp_path EXCEPT ![c] = NoPath]
      /\ err' = [err EXCEPT ![c] = None]
      /\ answered' = [answered EXCEPT ![c] = None]
      /\ sent_msg' = [sent_msg EXCEPT ![c] = FALSE]
      /\ progress_msg' = [progress_msg EXCEPT ![c] = NoMessage]
      /\ sink_dup' = [sink_dup EXCEPT ![c] = FALSE]
      /\ UNCHANGED <<search_cache, elapsed, AUTO_DELETE_TIME, db_titles, store_forwards,
                     store_inserts, data, local, gets, written, task, faults, lg, search_pc,
                     method_i, valid_results, returned, slept, calls, page_pc, page_data,
                     view, page_answer, command>>

\* time passes: the seconds since a user's last progress update cross the
\* next threshold the code compares them with
Tick(u) ==
  /\ elapsed[u] < 16
  /\ elapsed' = [elapsed EXCEPT ![u] = ElapsedClass(@ + 8)]
  /\ UNCHANGED <<search_cache, USER_LOCKS, AUTO_DELETE_TIME, files, db_titles,
                 store_forwards, store_inserts, pc, data, book, temp_path, handle, err,
                 local, gets, written, progress_msg, answered, sent_msg, sink_dup, task,
                 faults, lg, search_pc, method_i, valid_results, returned, slept, calls,
                 page_pc, page_data, view, page_answer, command>>

\* ------------------------------------------------------- the specifications
Fetch(c) ==
  \/ GetTransportError(c) \/ Backoff(c) \/ GetBadStatus(c) \/ GetResponse(c)
  \/ TooLarge(c) \/ ReadChunk(c) \/ StreamError(c) \/ WriteOk(c) \/ WriteFail(c)
  \/ FetchReturn(c)

Upload(c) ==
  \/ EditUploading(c) \/ UploadStart(c) \/ UploadProgress(c) \/ UploadDone(c)
  \/ UploadFloodWait(c) \/ FloodNotice(c) \/ FloodSleep(c) \/ UploadFail(c)

Lifecycle(c) ==
  \/ HandleAutoDelete(c) \/ LogDownload(c) \/ IsTitleExists(c)
  \/ StoreSend(c) \/ AddFileTitle(c) \/ DeleteProgress(c)

\* the task asyncio.create_task starts (l.282); it runs beside the handler
\* and outlives it
auto_delete_task(c) == TaskSleep(c) \/ AutoDeleteTask(c) \/ DeleterEdit(c)

Handler(c) ==
  \/ Validate(c) \/ StartDownload(c) \/ Return(c) \/ EditZero(c)
  \/ Fetch(c) \/ Upload(c) \/ Lifecycle(c)
  \/ Except(c) \/ FailSleep(c) \/ Finally(c)

\* the three callbacks, dispatched concurrently; no time passes, so the
\* deletion tasks they create stay in their sleep
Next ==
  \E c \in {"c1", "c2", "c3"} : Acquire(c) \/ AcquireWait(c) \/ AcquireWake(c) \/ Handler(c)

Spec == Init /\ [][Next]_vars

\* Three download selections of one user, u1.  The event loop runs every
\* coroutine that can take a step.
GateCallbacks == {"c1", "c2", "c4"}

Dispatch(c) == Acquire(c) \/ AcquireWait(c) \/ AcquireWake(c) \/ Handler(c)

NextGate == \E c \in GateCallbacks : Dispatch(c)

SpecGate ==
  Init /\ [][NextGate]_vars /\ \A c \in GateCallbacks : WF_vars(Dispatch(c))

\* One delivery cycle of u1 beside the pagination callbacks and the /search
\* commands of the same user.
InitConcurrent ==
  /\ InitCommon
  /\ InitNoSearch
  /\ search_cache = [k \in {"k1"} |-> SmallResults]
  /\ view = [k \in SessionKeys |->
               IF k = "k1" THEN View(SmallResults, "k1", 1) ELSE NoView]
  /\ AUTO_DELETE_TIME = 1
  /\ faults = MaxFaults
  /\ page_pc = "idle"
  /\ page_data = NoData
  /\ page_answer = None
  /\ command = NoCommand

NextConcurrent ==
  Acquire("c1") \/ Handler("c1") \/ handle_pagination \/ handle_search_command

SpecConcurrent == InitConcurrent /\ [][NextConcurrent]_vars

\* One delivery cycle (callback c1) on a cache of files of every size class,
\* with time passing.
InitTransfer ==
  /\ InitCommon
  /\ InitNoPaging
  /\ InitNoSearch
  /\ search_cache = [k \in {"k1"} |-> BigResults]
  /\ AUTO_DELETE_TIME \in {0, 1}
  /\ faults = MaxTransferFaults

NextTransfer == Acquire("c1") \/ Handler("c1") \/ auto_delete_task("c1") \/ Tick("u1")

SpecTransfer == InitTransfer /\ [][NextTransfer]_vars

\* One delivery cycle of a file above 30 MB, with time passing.
InitLarge ==
  /\ InitCommon
  /\ InitNoPaging
  /\ InitNoSearch
  /\ search_cache = [k \in {"k1"} |-> LargeResults]
  /\ AUTO_DELETE_TIME = 1
  /\ faults = MaxLargeFaults

NextLarge == Acquire("c1") \/ Handler("c1") \/ Tick("u1")

SpecLarge == InitLarge /\ [][NextLarge]_vars

\* One search: every answer of the three strategies, then the search runs.
\* No exception a strategy raises passes the handlers of l.64-67, so the
\* handlers of l.79-91 (ExceptFloodWait, Fallback, ExceptMain) take no step.
InitSearch ==
  /\ InitCommon
  /\ InitNoPaging
  /\ search_cache = [k \in {} |-> <<>>]
  /\ AUTO_DELETE_TIME = 1
  /\ faults = 0
  /\ \E o1 \in Outcomes(search_methods[1]), o2 \in Outcomes(search_methods[2]),
        o3 \in Outcomes(search_methods[3]) :
       lg = [n \in {search_methods[i] : i \in DOMAIN search_methods} \cup {FallbackMethod} |->
               IF n = search_methods[1] THEN o1
               ELSE IF n = search_methods[2] THEN o2
               ELSE IF n = search_methods[3] THEN o3
               ELSE ListOf(<<Dict(1, FallbackMethod, required_keys)>>)]
  /\ search_pc = "loop"
  /\ method_i = 1
  /\ valid_results = <<>>
  /\ returned = NotReturned
  /\ slept = 0
  /\ calls = <<>>

NextSearch == RunMethod \/ Dedup

SpecSearch == InitSearch /\ [][NextSearch]_vars

\* One result message of a search that cached 1 .. MaxResults records and
\* showed their first page, and the pagination callbacks on it.
InitPaging ==
  /\ InitCommon
  /\ InitNoSearch
  /\ \E n \in 1 .. MaxResults :
       /\ search_cache = [k \in {"k1"} |-> ResultsOfLen(n)]
       /\ view = [k \in SessionKeys |->
                    IF k = "k1" THEN View(ResultsOfLen(n), "k1", 1) ELSE NoView]
  /\ AUTO_DELETE_TIME = 1
  /\ faults = 0
  /\ page_pc = "idle"
  /\ page_data = NoData
  /\ page_answer = None
  /\ command = NoCommand

NextPaging == handle_pagination

SpecPaging == InitPaging /\ [][NextPaging]_vars

\* ================================================================ properties
\* where a callback is, relative to its user's lock and to the transfer
InGate(c) == pc[c] \notin {"idle", "waiting", "done"}
InTransfer(c) == pc[c] \in {"get", "backoff", "too_large", "stream", "write",
                            "edit_upload", "upload", "uploading", "flood_notice",
                            "flood_sleep"}
InFlight(c) == temp_path[c] # NoPath

\* C1: at most one callback of a user is between acquiring and releasing that
\* user's lock at any time.
C1_GateExclusive ==
  \A c, d \in Callbacks :
    (c # d /\ UserOf(c) = UserOf(d)) => ~(InGate(c) /\ InGate(d))

\* C1, its case: callbacks of two users are in their transfer at once, while a
\* second callback of one of them waits for the lock.
C1_Witness ==
  /\ InTransfer("c1") /\ InTransfer("c3")
  /\ UserOf("c1") # UserOf("c3")
  /\ pc["c2"] = "waiting"

\* C2: no two delivery cycles in flight hold the same local path.
C2_PathExclusive ==
  \A c, d \in Callbacks :
    (c # d /\ InFlight(c) /\ InFlight(d)) => temp_path[c] # temp_path[d]

\* C3: per normalized title, the artifact is forwarded to the archival store
\* at most once and the title is inserted into the title store at most once.
C3_ArchivedOnce ==
  \A t \in NormTitles : store_forwards[t] <= 1 /\ store_inserts[t] <= 1

C5_SizeExceeded ==
  /\ [][\A c \in Callbacks :
          (pc[c] = "too_large" /\ pc'[c] # "too_large") =>
            /\ pc'[c] = "except"
            /\ err'[c] = "FILE_TOO_LARGE"
            /\ gets'[c] = gets[c]
            /\ written'[c] = 0]_vars
  /\ [](\A c \in Callbacks :
          pc[c] = "too_large" => (written[c] = 0 /\ handle[c] = "closed" /\ ~sent_msg[c]))

\* C6: a transport error is surfaced only after 3 whole-attempt retries, that
\* is, after the first attempt and three more.
C6_ThreeRetries ==
  \A c \in Callbacks :
    (pc[c] = "except" /\ err[c] = "ClientError") => gets[c] = 1 + max_retries

\* the file at a callback's path holds the whole body, chunk after chunk
FileComplete(c) ==
  LET srv == Server[book[c].Direct_Download_Link]
      f == files[temp_path[c]]
  IN  /\ f.exists
      /\ SumSeq(f.content) = srv.body
      /\ srv.content_length # 0 => SumSeq(f.content) = srv.content_length
      /\ \A i \in DOMAIN f.content : f.content[i] > 0 /\ f.content[i] <= ChunkMax

\* C7: a chunk write is attempted at most 3 times; a fetch that returns leaves
\* a file as long as the advertised content-length, every chunk written once
\* and in order, also after a whole-attempt retry; a third failure of a chunk
\* write fails the transfer.
C7_ChunkWrites ==
  /\ [](\A c \in Callbacks :
          /\ local[c].write_attempt \in 0 .. WRITE_ATTEMPTS - 1
          /\ pc[c] = "edit_upload" => FileComplete(c)
          /\ (pc[c] \in {"stream", "write"} /\ handle[c] = "open") =>
               SumSeq(files[temp_path[c]].content) = local[c].downloaded)
  /\ [][\A c \in Callbacks :
          (pc[c] = "write" /\ faults' < faults /\ written'[c] = written[c]) =>
            IF local[c].write_attempt < WRITE_ATTEMPTS - 1
              THEN pc'[c] = "write" /\ local'[c].write_attempt = local[c].write_attempt + 1
                   /\ files' = files
              ELSE pc'[c] = "except" /\ err'[c] = "Exception"]_vars

\* C7, its case: after a whole-attempt retry, the last chunk was written at the
\* third attempt and the file is complete.
C7_Witness ==
  /\ pc["c1"] = "stream"
  /\ gets["c1"] = 2
  /\ written["c1"] > Server[book["c1"].Direct_Download_Link].body
  /\ local["c1"].write_attempt = WRITE_ATTEMPTS - 1
  /\ local["c1"].downloaded = Server[book["c1"].Direct_Download_Link].body
  /\ FileComplete("c1")

\* C8: within one transfer no progress edit carries the text of the progress
\* edit before it.
C8_NoRepeat == \A c \in Callbacks : ~sink_dup[c]

\* the strategies up to and including the i-th
UpTo(i) == SubSeq(search_methods, 1, i)
\* the i-th strategy is the first that raises the rate-limit signal
FirstFloodWait(i) ==
  /\ lg[search_methods[i]].exc = "FloodWait"
  /\ \A j \in 1 .. i - 1 : lg[search_methods[j]].exc # "FloodWait"

\* C9: when a strategy raises the rate-limit signal, the search runs no
\* further strategy, sleeps the signaled cooldown plus the margin, calls the
\* fallback strategy once and returns the fallback's validated records.
C9_RateLimitFallback ==
  \A i \in DOMAIN search_methods :
    (search_pc = "done" /\ FirstFloodWait(i)) =>
      /\ calls = Append(UpTo(i), FallbackMethod)
      /\ slept = lg[search_methods[i]].value + FLOOD_MARGIN
      /\ returned.value = RunStrategy(lg[FallbackMethod], <<>>).valid

\* the position of the first record of valid_results with the given ID
FirstAt(id) ==
  CHOOSE k \in DOMAIN valid_results :
    valid_results[k].ID = id /\ \A m \in 1 .. k - 1 : valid_results[m].ID # id

\* C10: the returned sequence holds each identifier of the collected records
\* exactly once, each with the record of its first occurrence, in the order of
\* the first occurrences.
C10_FirstSeenOrder ==
  search_pc = "done" =>
    LET r == returned.value
    IN  /\ returned.done
        /\ \A i, j \in DOMAIN r : r[i].ID = r[j].ID => i = j
        /\ {r[i].ID : i \in DOMAIN r} = {valid_results[k].ID : k \in DOMAIN valid_results}
        /\ \A i \in DOMAIN r : r[i] = valid_results[FirstAt(r[i].ID)]
        /\ \A i, j \in DOMAIN r : i < j => FirstAt(r[i].ID) < FirstAt(r[j].ID)

\* C10, its case: two strategies answered records with the same identifier,
\* another identifier between them, and the search returned.
C10_Witness ==
  /\ search_pc = "done"
  /\ Len(valid_results) >= 3
  /\ valid_results[1].ID = valid_results[3].ID
  /\ valid_results[1] # valid_results[3]
  /\ valid_results[2].ID # valid_results[1].ID
  /\ returned.value = <<valid_results[1], valid_results[2]>>

\* the records of a strategy's answer, when it is a list
ItemsOf(name) == {lg[name].items[k] : k \in DOMAIN lg[name].items}

\* C11: whatever libgen_search returns holds only dicts that have the ID,
\* Author, Title and Direct_Download_Link keys.
C11_OnlyCompleteRecords ==
  returned.done =>
    \A i \in DOMAIN returned.value :
      /\ returned.value[i].kind = "dict"
      /\ required_keys \subseteq returned.value[i].keys

\* C11, its case: a strategy answered a record without Author next to a
\* complete one, and the search returned the complete one only.
C11_Witness ==
  /\ search_pc = "done"
  /\ Dict(1, search_methods[1], required_keys \ {"Author"}) \in ItemsOf(search_methods[1])
  /\ Dict(2, search_methods[1], required_keys) \in ItemsOf(search_methods[1])
  /\ returned.value = <<Dict(2, search_methods[1], required_keys)>>

\* the page slices 1 .. n of a result set, one after the other
RECURSIVE PagesUpTo(_, _)
PagesUpTo(results, n) ==
  IF n = 0 THEN <<>> ELSE PagesUpTo(results, n - 1) \o page_results(results, n)

RECURSIVE PageLengths(_, _)
PageLengths(results, n) ==
  IF n = 0 THEN 0 ELSE PageLengths(results, n - 1) + Len(page_results(results, n))

IDsOf(seq) == {seq[i].ID : i \in DOMAIN seq}

\* C12: the pages 1 .. total_pages of every cached result set partition it:
\* the page slices put one after the other are the result set in its order,
\* no record is on two pages, the page lengths add up to the length of the
\* set, and the result message shows the slice of the page it is on.
C12_PagesPartition ==
  \A k \in DOMAIN search_cache :
    LET R == search_cache[k]
        n == total_pages(R)
    IN  /\ PagesUpTo(R, n) = R
        /\ PageLengths(R, n) = Len(R)
        /\ \A p, q \in 1 .. n :
             p # q => IDsOf(page_results(R, p)) \cap IDsOf(page_results(R, q)) = {}
        /\ view[k].key = k
        /\ [i \in DOMAIN view[k].buttons.rows |-> view[k].buttons.rows[i].shows]
             = [i \in DOMAIN page_results(R, view[k].page) |->
                  page_results(R, view[k].page)[i].ID]

\* C12, its case: a set of 21 records on three pages, the result message
\* turned to the last page, which holds the one record left.
C12_Witness ==
  /\ Len(search_cache["k1"]) = 2 * RESULTS_PER_PAGE + 1
  /\ view["k1"].page = 3
  /\ Len(view["k1"].buttons.rows) = 1
  /\ view["k1"].buttons.rows[1].shows = 2 * RESULTS_PER_PAGE + 1

\* C13: a pagination callback for a session key that is not cached is answered
\* "Search session expired!", one for a page outside 1 .. total_pages is
\* answered "Invalid page!"; either way the handler ends there: the page asked
\* for is not changed, the result message is not edited, the cache is as before.
C13_InvalidPageRejected ==
  [][LET k == page_data[1]
         page == page_data[2]
         expired == k \notin DOMAIN search_cache
         invalid == ~expired /\ page \notin 1 .. total_pages(search_cache[k])
     IN  /\ page_pc = "start" /\ page_pc' # "start" /\ expired =>
              page_answer' = "Search session expired!"
         /\ page_pc = "start" /\ page_pc' # "start" /\ invalid =>
              page_answer' = "Invalid page!"
         /\ page_pc = "start" /\ page_pc' # "start" /\ (expired \/ invalid) =>
              /\ page_pc' = "done"
              /\ page_data' = page_data
         /\ page_pc \in {"start", "done"} =>
              /\ view' = view
              /\ search_cache' = search_cache]_vars

\* C13, its case: page 0 of a cached session was asked for while the message
\* showed page 2; the callback is answered "Invalid page!", the message is
\* still on page 2.
C13_Witness ==
  /\ page_pc = "done"
  /\ page_data = <<"k1", 0>>
  /\ page_answer = "Invalid page!"
  /\ view["k1"].page = 2

\* C14 as stated: with a positive delay, a delivered message whose handler
\* is past handle_auto_delete has a deletion task, and a task that is over
\* has deleted the message and edited the notice once.
C14_AlwaysDeleted ==
  \A c \in Callbacks :
    AUTO_DELETE_TIME > 0 =>
      /\ sent_msg[c] /\ pc[c] \in {"log", "delete_progress", "finally"} =>
           task[c].state # None
      /\ task[c].state \in {"ended", "failed"} =>
           task[c].deleted /\ task[c].edits = 1

\* C14, amended: with delay 0 there is no notice and no task.  With a delay
\* N > 0 the task exists exactly when the notice was sent; the message is
\* deleted only by the task and only once N time units have passed since it
\* was created; the notice is edited to the deleted state at most once and
\* only after the deletion; a task that ends without a failure has deleted
\* the message and edited the notice exactly once, one that failed has not
\* edited it.
C14_DeletedAfterDelay ==
  \A c \in Callbacks :
    /\ AUTO_DELETE_TIME = 0 => task[c] = NoTask
    /\ task[c].state # None <=> task[c].deleter_msg # NoMessage
    /\ task[c].deleted => AUTO_DELETE_TIME > 0 /\ task[c].waited >= AUTO_DELETE_TIME
    /\ task[c].edits <= 1
    /\ task[c].edits = 1 <=> task[c].deleter_msg = <<"FILE_DELETED_MSG">>
    /\ task[c].edits = 1 => task[c].deleted
    /\ task[c].state = "ended" => task[c].deleted /\ task[c].edits = 1
    /\ task[c].state = "failed" => task[c].edits = 0

\* C14, its case: the delay is positive, the file was delivered, the task
\* slept the delay out, deleted the message and edited the notice.
C14_Witness ==
  /\ AUTO_DELETE_TIME > 0
  /\ task["c1"].state = "ended"
  /\ task["c1"].waited = AUTO_DELETE_TIME
  /\ task["c1"].deleted
  /\ task["c1"].deleter_msg = <<"FILE_DELETED_MSG">>

\* C15: once the file is delivered, no auto-delete step and no archival step
\* takes the handler to its except clause (where the failure status is
\* shown): the notice step is followed by the archival step, and the archival
\* steps by the removal of the progress message.
C15_FailuresOnlyLogged ==
  [][\A c \in Callbacks :
       /\ pc[c] \in {"auto_delete", "log", "is_title_exists", "store_send",
                     "add_file_title"} => pc'[c] # "except"
       /\ pc[c] = "auto_delete" /\ pc'[c] # "auto_delete" => pc'[c] = "log"]_vars

\* C16: a selection that waits on its user's gate is admitted in the end,
\* whichever way the cycles before it end; every way out of a cycle releases
\* the gate; a selection that finds the gate held or waited on joins the end
\* of the queue, and the selection admitted from the queue is its first.
C16_AdmittedInOrder ==
  /\ \A c \in GateCallbacks : pc[c] = "waiting" ~> pc[c] = "locked"
  /\ [][\A c \in GateCallbacks :
          LET u == UserOf(c)
          IN  /\ pc[c] # "done" /\ pc'[c] = "done" => ~USER_LOCKS'[u].locked
              /\ pc[c] = "idle" /\ pc'[c] = "waiting" =>
                   USER_LOCKS'[u].waiters = Append(USER_LOCKS[u].waiters, c)
              /\ pc[c] = "idle" /\ pc'[c] = "locked" =>
                   ~USER_LOCKS[u].locked /\ USER_LOCKS[u].waiters = <<>>
              /\ pc[c] = "waiting" /\ pc'[c] = "locked" =>
                   /\ c = Head(USER_LOCKS[u].waiters)
                   /\ USER_LOCKS'[u].waiters = Tail(USER_LOCKS[u].waiters)]_vars

\* C16, its case: c4 and then c2 came while c1 held the gate of u1; c1's
\* cycle failed and is over, the gate is free, and both still wait.
C16_Witness ==
  /\ pc["c1"] = "done"
  /\ faults < MaxFaults
  /\ ~USER_LOCKS["u1"].locked
  /\ USER_LOCKS["u1"].waiters = <<"c4", "c2">>

\* C17: a FloodWait of send_document is followed by the sleep and by the
\* upload from its start again, with the user's gate held all along.
C17_FloodWaitRetried ==
  [][\A c \in Callbacks :
       /\ pc[c] = "flood_notice" /\ pc'[c] # "flood_notice" => pc'[c] = "flood_sleep"
       /\ pc[c] = "flood_sleep" /\ pc'[c] # "flood_sleep" => pc'[c] = "upload"
       /\ pc[c] \in {"flood_notice", "flood_sleep"} => USER_LOCKS'[UserOf(c)].locked]_vars

\* C18: a cycle that fails ends with a status the user can read: a response
\* above the size limit leaves the size notice with the direct link, which
\* the except clause keeps; any other failure leaves "Download failed".
C18_FailureStatusShown ==
  [][\A c \in Callbacks :
       /\ pc[c] = "too_large" /\ pc'[c] # "too_large" =>
            /\ progress_msg'[c] # NoMessage
            /\ Head(progress_msg'[c]) = "File Size Limit Exceeded"
            /\ err'[c] = "FILE_TOO_LARGE"
       /\ pc[c] = "except" /\ pc'[c] # "except" =>
            IF err[c] = "FILE_TOO_LARGE"
              THEN progress_msg'[c] = progress_msg[c]
              ELSE progress_msg'[c] = <<"Download failed">>]_vars

\* C19: when a chunk of a file above 30 MB is written more than 10 seconds
\* after the last progress update, and Telegram takes the edit, the progress
\* message is set to the current-MB/total-MB text.
C19_ForcedLargeUpdate ==
  [][\A c \in Callbacks :
       (/\ pc[c] = "write"
        /\ written'[c] > written[c]
        /\ local[c].total_size > LargeFile
        /\ elapsed[UserOf(c)] > 10
        /\ faults' = faults) =>
         /\ progress_msg'[c] # NoMessage
         /\ Head(progress_msg'[c]) = "Downloading large file... (MB/MB)"]_vars

\* the record at place k of a strategy's list is complete and the strategy
\* has not failed before it
ValidAt(out, k) ==
  /\ \A m \in 1 .. k : out.items[m].kind = "dict"
  /\ required_keys \subseteq out.items[k].keys

\* C20: no exception of a strategy leaves the loop over the strategies: the
\* search calls every strategy, whatever the ones before it did, and returns;
\* every complete record a strategy returned before any failure of its own
\* was collected, and a record with its ID is in the output.
C20_StrategiesIndependent ==
  /\ search_pc \notin {"except_flood", "except_main", "fallback"}
  /\ search_pc = "done" =>
       /\ returned.done
       /\ calls = search_methods
       /\ \A i \in DOMAIN search_methods :
            LET out == lg[search_methods[i]]
            IN  \A k \in DOMAIN out.items :
                  ValidAt(out, k) =>
                    /\ \E j \in DOMAIN valid_results : valid_results[j] = out.items[k]
                    /\ \E j \in DOMAIN returned.value :
                         returned.value[j].ID = out.items[k].ID

\* C20, its case: the first strategy raised, the second returned a complete
\* record and then something that is no dict, the third returned a complete
\* record; the output holds both records.
C20_Witness ==
  /\ search_pc = "done"
  /\ lg[search_methods[1]] = Raises("ConnectionError", 0)
  /\ lg[search_methods[2]] = ListOf(<<Dict(1, search_methods[2], required_keys), NotADict>>)
  /\ lg[search_methods[3]] = ListOf(<<Dict(2, search_methods[3], required_keys)>>)
  /\ returned.value = <<Dict(1, search_methods[2], required_keys),
                        Dict(2, search_methods[3], required_keys)>>

\* C21: a selection whose session key is not cached is answered "Session
\* expired! Please search again", one whose index is no position of the
\* cached results (below 0, or len(results) and above) is answered "Invalid
\* selection!"; either way the handler returns and starts no transfer.
C21_InvalidSelectionRejected ==
  [][\A c \in Callbacks :
       pc[c] = "locked" /\ pc'[c] # "locked" =>
         LET k == data'[c][1]
             index == data'[c][2]
         IN  /\ k \notin DOMAIN search_cache =>
                  /\ answered'[c] = "Session expired! Please search again"
                  /\ pc'[c] = "return"
             /\ k \in DOMAIN search_cache /\ index \notin 0 .. Len(search_cache[k]) - 1 =>
                  /\ answered'[c] = "Invalid selection!"
                  /\ pc'[c] = "return"
                  /\ book'[c] = NoBook]_vars

\* a step of handle_pagination or of handle_search_command
BesideStep ==
  page_pc' # page_pc \/ page_data' # page_data \/ command' # command \/ returned' # returned

\* C22: the pagination callbacks and the /search commands of a user do not
\* wait for that user's gate: whoever holds it, their next step can be taken,
\* and their steps leave the gate alone.  They never change the record a
\* cycle is delivering: the cycle keeps the record it read from the cache
\* until it ends, a search caches its results under a new key and neither a
\* search nor a pagination changes the results of a cached session.
C22_NotSerialized ==
  /\ [](/\ page_pc = "start" => ENABLED PageValidate
        /\ page_pc = "edit" => ENABLED PageEdit
        /\ page_pc = "done" => ENABLED PageReturn
        /\ command.pc = "search" => ENABLED SearchRun
        /\ command.pc = "store" => ENABLED SearchStore
        /\ command.pc = "show" => ENABLED SearchShow)
  /\ [][/\ BesideStep =>
             /\ USER_LOCKS' = USER_LOCKS
             /\ book' = book
             /\ pc' = pc
        /\ \A c \in Callbacks :
             book[c] # NoBook /\ pc'[c] # "done" => book'[c] = book[c]
        /\ \A k \in DOMAIN search_cache :
             k \in DOMAIN search_cache' /\ search_cache'[k] = search_cache[k]]_vars

\* C22, its case: while c1 holds the gate of u1 and streams the first record
\* of session k1, a search of u1 has cached and shown a second session and a
\* pagination callback of u1 has been answered.
C22_Witness ==
  /\ USER_LOCKS["u1"].locked
  /\ pc["c1"] = "stream"
  /\ book["c1"] = search_cache["k1"][1]
  /\ "k0" \in DOMAIN search_cache
  /\ view["k0"].page = 1
  /\ page_pc = "done"
  /\ page_answer = "Invalid page!"

\* the buttons of a navigation row with the given text
Nav(row, text) == {row[j] : j \in {m \in DOMAIN row : row[m].text = text}}

\* C23: on every page p of every cached session, the button of the i-th
\* record of the page carries lgdl, the session key and the index of that
\* record in the whole result set, an index the download handler accepts and
\* resolves to the record the button shows; the navigation row has Back, to
\* page p - 1, exactly when p > 1, and Next, to page p + 1, exactly when
\* p < total_pages; the result message of the session shows such a page.
C23_ButtonsResolve ==
  \A k \in DOMAIN search_cache :
    LET R == search_cache[k]
    IN  /\ \A p \in 1 .. total_pages(R) :
             LET buttons == create_search_buttons(R, k, p)
             IN  /\ \A i \in DOMAIN buttons.rows :
                      LET b == buttons.rows[i]
                          index == b.callback_data[3]
                      IN  /\ b.callback_data[1] = "lgdl"
                          /\ b.callback_data[2] = k
                          /\ index = (p - 1) * RESULTS_PER_PAGE + i - 1
                          /\ ~(index >= Len(R))
                          /\ PyIndex(R, index) = R[(p - 1) * RESULTS_PER_PAGE + i]
                          /\ PyIndex(R, index).ID = b.shows
                 /\ Nav(buttons.pagination, "Back") =
                      IF p > 1
                        THEN {[text |-> "Back", callback_data |-> <<"lgpage", k, p - 1>>]}
                        ELSE {}
                 /\ Nav(buttons.pagination, "Next") =
                      IF p < total_pages(R)
                        THEN {[text |-> "Next", callback_data |-> <<"lgpage", k, p + 1>>]}
                        ELSE {}
                 /\ Len(buttons.pagination) =
                      1 + (IF p > 1 THEN 1 ELSE 0) + (IF p < total_pages(R) THEN 1 ELSE 0)
        /\ view[k] # NoView =>
             /\ view[k].page \in 1 .. total_pages(R)
             /\ view[k].buttons = create_search_buttons(R, k, view[k].page)

\* C23, its case: 21 records, the message on page 2: the third button
\* carries index 12 and shows the 13th record; Back and Next are both there.
C23_Witness ==
  /\ Len(search_cache["k1"]) = 2 * RESULTS_PER_PAGE + 1
  /\ view["k1"].page = 2
  /\ view["k1"].buttons.rows[3].callback_data = <<"lgdl", "k1", RESULTS_PER_PAGE + 2>>
  /\ view["k1"].buttons.rows[3].shows = search_cache["k1"][RESULTS_PER_PAGE + 3].ID
  /\ Len(view["k1"].buttons.pagination) = 3
====
